---- MODULE Spec2Model ----
(***************************************************************************)
(* A model of the i8c emitter (src/i8c/emitter.py): Label, String,         *)
(* StringTable, AutosTable and Emitter, together with the assembler's      *)
(* reading of the emitted listing (byte sizes, local labels).              *)
(***************************************************************************)
EXTENDS Integers, Sequences, FiniteSets, TLC

\* ------------------------------------------------------------------------
\* Bounds of the model
\* ------------------------------------------------------------------------

\* Largest exponent e for which the constants 2^e-1, 2^e, 2^e+1 are tried.
MaxExp == 70

\* The number of functions of a toplevel.
MaxFunctions == 2

\* The number of operations of the functions of a toplevel, in all.
MaxOps == 2

\* The number of operations of the stream of a function visited alone.
MaxStreamOps == 3

\* The number of operations of a stream of one-byte operations and branches.
MaxBranchOps == 5

\* The number of branches among them.
MaxBranches == 2

\* Every constant from 0 to MaxSmall and from -MaxSmall to -1 is tried.
MaxSmall == 40

\* The number of constant operations visited in a row.
MaxConsts == 1

\* The number of operations in stream.labels.
MaxLabels == 2

\* The number of Strings registered with a StringTable on its own.
MaxStrings == 3

\* The length of a text registered with a StringTable on its own.
MaxLen == 2

\* The calls of emit_op on one emitter
MaxEmitOps == 4

\* The entries of an autos table
MaxAutos == 3

\* The user parameters, the automatic parameters and the return types of
\* a function whose tables are followed statement by statement
MaxParams == 2

\* The labels made and the lines written by a writer on its own
MaxWriterLabels == 2
MaxWriterLines == 4

\* The length of a text given to TestCompiler.preprocess
MaxInput == 5

\* The variants given to CompilerTask.__fork
MaxVariants == 3

\* The calls of TestCompiler.compile
MaxCompilations == 2

\* The element of a set of one element.  The emitter's methods change one
\* state after another; a state is handed on as the one element of a set,
\* so that it is a value by the time a definition reads its fields.
Only(S) == CHOOSE r \in S : TRUE

\* ------------------------------------------------------------------------
\* Python integers.  They are unbounded, and the constant ladder compares
\* against 1 << 64, so a value is a sign and a magnitude written in base
\* 128, least significant digit first, without leading zero digits.
\* ------------------------------------------------------------------------

Zero == [neg |-> FALSE, mag |-> <<>>]

\* The magnitude of 2^e.
Pow2Mag(e) ==
  [i \in 1..((e \div 7) + 1) |-> IF i = (e \div 7) + 1 THEN 2^(e % 7) ELSE 0]

\* The magnitude of 2^e - 1.
Pow2Minus1Mag(e) ==
  IF e % 7 = 0 THEN [i \in 1..(e \div 7) |-> 127]
  ELSE [i \in 1..((e \div 7) + 1) |->
          IF i = (e \div 7) + 1 THEN 2^(e % 7) - 1 ELSE 127]

\* The magnitude of 2^e + 1.
Pow2Plus1Mag(e) ==
  IF e = 0 THEN <<2>>
  ELSE [i \in 1..((e \div 7) + 1) |->
          (IF i = (e \div 7) + 1 THEN 2^(e % 7) ELSE 0) + (IF i = 1 THEN 1 ELSE 0)]

\* A small natural number as a Python integer.
RECURSIVE NatMag(_)
NatMag(n) == IF n = 0 THEN <<>> ELSE <<n % 128>> \o NatMag(n \div 128)

PyInt(n) == [neg |-> n < 0, mag |-> NatMag(IF n < 0 THEN -n ELSE n)]

\* A Python integer that is small enough, as a number of the model.
RECURSIVE MagNat(_)
MagNat(m) == IF m = <<>> THEN 0 ELSE m[1] + 128 * MagNat(Tail(m))

PyNat(x) == IF x.neg THEN -MagNat(x.mag) ELSE MagNat(x.mag)

MagLess(a, b) ==
  \/ Len(a) < Len(b)
  \/ /\ Len(a) = Len(b)
     /\ \E i \in 1..Len(a) :
          /\ a[i] < b[i]
          /\ \A j \in (i + 1)..Len(a) : a[j] = b[j]

\* x < y
IntLess(x, y) ==
  IF x.neg
    THEN IF y.neg THEN MagLess(y.mag, x.mag) ELSE TRUE
    ELSE IF y.neg THEN FALSE ELSE MagLess(x.mag, y.mag)

\* x >= y
IntGeq(x, y) == ~IntLess(x, y)

\* 1 << k
Shl1(k) == [neg |-> FALSE, mag |-> Pow2Mag(k)]

\* -x
IntNeg(x) == IF x.mag = <<>> THEN x ELSE [neg |-> ~x.neg, mag |-> x.mag]

\* ------------------------------------------------------------------------
\* What a line of the listing holds
\* ------------------------------------------------------------------------

\* A rendered reference to a label: its name and "b" or "f".
NoRef == [name |-> "", dir |-> ""]

\* The operand of a line.  k says which of the fields is meant:
\*   "none"                    no operand
\*   "int"   i                 str(value) of a Python integer
\*   "sym"   s                 a symbol (DW_OP_..., NT_GNU_INFINITY)
\*   "def"   s, i              the name and the value of a #define
\*   "expr"  a, b, p           "0" (a = b = NoRef) or "<a>-<b>", followed by
\*                             "+<p>" when p >= 0
\*   "text"  t                 the text of a .string or of a comment line
Operand(k, i, s, a, b, p, t) ==
  [k |-> k, i |-> i, s |-> s, a |-> a, b |-> b, p |-> p, t |-> t]

NoV == Operand("none", Zero, "", NoRef, NoRef, -1, <<>>)
IntV(x) == Operand("int", x, "", NoRef, NoRef, -1, <<>>)
SymV(s) == Operand("sym", Zero, s, NoRef, NoRef, -1, <<>>)
DefV(s, n) == Operand("def", PyInt(n), s, NoRef, NoRef, -1, <<>>)
ZeroV == Operand("expr", Zero, "", NoRef, NoRef, -1, <<>>)
DiffV(a, b) == Operand("expr", Zero, "", a, b, -1, <<>>)
TextV(t) == Operand("text", Zero, "", NoRef, NoRef, -1, t)

\* "%s+%d" % (offset, d)
PlusV(v, d) == [v EXCEPT !.p = d]

\* The directives the emitter writes; a line that starts with "." is
\* indented by a tab.
Directives ==
  {".byte", ".2byte", ".4byte", ".8byte", ".uleb128", ".sleb128",
   ".string", ".balign", ".section"}


\* ------------------------------------------------------------------------
\* i8c.dwarf2: the DW_OP_ names and their codes
\* ------------------------------------------------------------------------

LitNames == {"DW_OP_lit" \o ToString(n) : n \in 0..31}

Dwarf2Table ==
  [n \in {"DW_OP_deref", "DW_OP_const1u", "DW_OP_const1s", "DW_OP_const2u",
          "DW_OP_const2s", "DW_OP_const4u", "DW_OP_const4s", "DW_OP_const8u",
          "DW_OP_const8s", "DW_OP_constu", "DW_OP_consts", "DW_OP_dup",
          "DW_OP_drop", "DW_OP_over", "DW_OP_pick", "DW_OP_swap", "DW_OP_rot",
          "DW_OP_bra", "DW_OP_eq", "DW_OP_skip", "DW_OP_call"} |->
     CASE n = "DW_OP_deref" -> 6
       [] n = "DW_OP_const1u" -> 8
       [] n = "DW_OP_const1s" -> 9
       [] n = "DW_OP_const2u" -> 10
       [] n = "DW_OP_const2s" -> 11
       [] n = "DW_OP_const4u" -> 12
       [] n = "DW_OP_const4s" -> 13
       [] n = "DW_OP_const8u" -> 14
       [] n = "DW_OP_const8s" -> 15
       [] n = "DW_OP_constu" -> 16
       [] n = "DW_OP_consts" -> 17
       [] n = "DW_OP_dup" -> 18
       [] n = "DW_OP_drop" -> 19
       [] n = "DW_OP_over" -> 20
       [] n = "DW_OP_pick" -> 21
       [] n = "DW_OP_swap" -> 22
       [] n = "DW_OP_rot" -> 23
       [] n = "DW_OP_bra" -> 40
       [] n = "DW_OP_eq" -> 41
       [] n = "DW_OP_skip" -> 47
       [] n = "DW_OP_call" -> 152]

Dwarf2Names == DOMAIN Dwarf2Table \cup LitNames

Dwarf2Code(n) ==
  IF n \in DOMAIN Dwarf2Table THEN Dwarf2Table[n]
  ELSE 48 + (CHOOSE k \in 0..31 : n = "DW_OP_lit" \o ToString(k))

\* ------------------------------------------------------------------------
\* Label.  Label objects live in E.objs; a label is its index there.
\* ------------------------------------------------------------------------

NoLabel == 0

\* Label.__init__
Label(name) == [name |-> name, emitted |-> FALSE]

\* Label.ref that never looks at the emitted flag
LabelRefForward(E, l) == [name |-> E.objs[l].name, dir |-> "f"]

\* Label.ref
LabelRef(E, l) ==
  [name |-> E.objs[l].name, dir |-> IF E.objs[l].emitted THEN "b" ELSE "f"]

\* Label.__sub__: self - other
LabelSub(E, self, other) ==
  IF other = self THEN ZeroV ELSE DiffV(LabelRef(E, self), LabelRef(E, other))

\* ------------------------------------------------------------------------
\* Emitter.  E is the emitter's state: num_labels, label (the pending
\* self.__label), opcodes (the names still in self.opcodes), output (the
\* lines given to self.write) and objs (the Label objects made so far).
\* ------------------------------------------------------------------------

\* Emitter.__init__ and __init_opcodes
NewEmitter ==
  [num_labels |-> 0, label |-> NoLabel, opcodes |-> Dwarf2Names,
   output |-> <<>>, objs |-> <<>>]

\* new_label without the increment of num_labels
NewLabelSame(E0) ==
  Only({[E EXCEPT !.objs = Append(@, Label(ToString(E.num_labels + 1)))] :
          E \in {E0}})

\* Emitter.new_label; the new label is Len of the result's objs.
NewLabel(E0) ==
  Only({[E EXCEPT !.num_labels = @ + 1,
                  !.objs = Append(@, Label(ToString(E.num_labels + 1)))] :
          E \in {E0}})

Line(lab, dir, val, cmt) ==
  [lab |-> lab, tab |-> dir \in Directives, dir |-> dir, val |-> val, cmt |-> cmt]

\* Emitter.emit without the test for a line that starts with "#"
EmitAnyLine(E0, dir, val, cmt) ==
  Only({IF E.label # NoLabel
          THEN [E EXCEPT !.label = NoLabel,
                         !.output = Append(@, Line(E.objs[E.label].name, dir, val, cmt))]
          ELSE [E EXCEPT !.output = Append(@, Line("", dir, val, cmt))] :
        E \in {E0}})

\* Emitter.emit: the line is dir followed by val; cmt = "" is comment=None.
Emit(E0, dir, val, cmt) ==
  Only({IF dir # "#define" /\ E.label # NoLabel
          THEN [E EXCEPT !.label = NoLabel,
                         !.output = Append(@, Line(E.objs[E.label].name, dir, val, cmt))]
          ELSE [E EXCEPT !.output = Append(@, Line("", dir, val, cmt))] :
        E \in {E0}})

\* Emitter.emit of dir followed by the difference a - b of two labels
EmitDiff(E0, dir, a, b, cmt) ==
  Only({Emit(E, dir, LabelSub(E, a, b), cmt) : E \in {E0}})

\* Emitter.emit_newline
EmitNewline(E) == Emit(E, "", NoV, "")

\* Emitter.emit_comment
EmitComment(E, comment) == Emit(E, "", NoV, comment)

\* emit_label that overwrites a pending label without writing it
EmitLabelNoFlush(E0, l) ==
  Only({[E EXCEPT !.label = l, !.objs[l].emitted = TRUE] : E \in {E0}})

\* Emitter.emit_label
EmitLabel(E0, l) ==
  Only({[E EXCEPT !.output =
                    IF E.label # NoLabel
                      THEN Append(@, Line(E.objs[E.label].name, "", NoV, ""))
                      ELSE @,
                  !.label = l,
                  !.objs[l].emitted = TRUE] :
        E \in {E0}})

EmitByte(E, val, cmt) == Emit(E, ".byte", val, cmt)
Emit2byte(E, val, cmt) == Emit(E, ".2byte", val, cmt)
Emit4byte(E, val, cmt) == Emit(E, ".4byte", val, cmt)
Emit8byte(E, val, cmt) == Emit(E, ".8byte", val, cmt)
EmitUleb128(E, val, cmt) == Emit(E, ".uleb128", val, cmt)
EmitSleb128(E, val, cmt) == Emit(E, ".sleb128", val, cmt)

\* emit_op that leaves the name in self.opcodes
EmitOpKeep(E0, name, cmt) ==
  Only({EmitByte(IF n \in E.opcodes
                   THEN Emit(E, "#define", DefV(n, Dwarf2Code(n)), "")
                   ELSE E,
                 SymV(n), cmt) :
        E \in {E0}, n \in {"DW_OP_" \o name}})

\* Emitter.emit_op
EmitOp(E0, name, cmt) ==
  Only({EmitByte(IF n \in E.opcodes
                   THEN Emit([E EXCEPT !.opcodes = @ \ {n}], "#define",
                             DefV(n, Dwarf2Code(n)), "")
                   ELSE E,
                 SymV(n), cmt) :
        E \in {E0}, n \in {"DW_OP_" \o name}})


\* ------------------------------------------------------------------------
\* String and StringTable.  A text is a sequence of character codes.  S is
\* a table: strings (the String objects, each a text and an offset that is
\* NoV until layout_table stores one; a String is its index) and entries
\* (pairs of a label and a text).
\* ------------------------------------------------------------------------

\* String.__init__
String(text) == [text |-> text, offset |-> NoV]

\* StringTable.__init__
NewStringTable == [strings |-> <<>>, entries |-> <<>>]

\* StringTable.is_laid_out
IsLaidOut(S) == Len(S.entries) # 0

\* StringTable.start_label
StartLabel(S) == S.entries[1].label

\* StringTable.new; the new String is Len of the result's strings.
StringTableNew(S, text) == [S EXCEPT !.strings = Append(@, String(text))]

\* String.append
StringAppend(S, h, more) == [S EXCEPT !.strings[h].text = @ \o more]

\* str.startswith
StartsWith(text, prefix) ==
  /\ Len(prefix) <= Len(text)
  /\ SubSeq(text, 1, Len(prefix)) = prefix

\* str.endswith
EndsWith(text, suffix) ==
  /\ Len(suffix) <= Len(text)
  /\ SubSeq(text, Len(text) - Len(suffix) + 1, Len(text)) = suffix

\* text1 < text2 for two Python strings
TextLess(t1, t2) ==
  \/ /\ Len(t1) < Len(t2)
     /\ SubSeq(t2, 1, Len(t1)) = t1
  \/ \E i \in 1..Len(t1) :
       /\ i <= Len(t2)
       /\ t1[i] < t2[i]
       /\ SubSeq(t1, 1, i - 1) = SubSeq(t2, 1, i - 1)

\* (len(text1), text1) < (len(text2), text2)
KeyLessAscending(t1, t2) ==
  \/ Len(t1) < Len(t2)
  \/ Len(t1) = Len(t2) /\ TextLess(t1, t2)

\* (-len(text1), text1) < (-len(text2), text2) with the texts of one
\* length taken in descending order
KeyLessTextDescending(t1, t2) ==
  \/ Len(t1) > Len(t2)
  \/ Len(t1) = Len(t2) /\ TextLess(t2, t1)

\* (-len(text1), text1) < (-len(text2), text2)
KeyLess(t1, t2) ==
  \/ Len(t1) > Len(t2)
  \/ Len(t1) = Len(t2) /\ TextLess(t1, t2)

\* list.sort of the (-len(text), text) pairs of a set of texts
RECURSIVE SortUnique(_)
SortUnique(texts) ==
  IF texts = {} THEN <<>>
  ELSE LET first == CHOOSE t \in texts : \A u \in texts \ {t} : KeyLess(t, u)
       IN <<first>> \o SortUnique(texts \ {first})

\* The entries whose text ends with text, in entry order.
Sharing(entries, text) ==
  {j \in 1..Len(entries) : EndsWith(entries[j].text, text)}

\* As PlaceText, sharing the tail of the last entry that ends with text.
PlaceTextLast(L0, text) ==
  Only({Only({IF hits # {}
                THEN LET j == CHOOSE k \in hits : \A m \in hits : m <= k
                         etext == L.S.entries[j].text
                     IN [L EXCEPT !.offsets = @ @@ (text :>
                                    PlusV(L.offsets[etext], Len(etext) - Len(text)))]
                ELSE Only({[E |-> F, S |-> T,
                            offsets |-> L.offsets @@
                              (text :> LabelSub(F, Len(F.objs), StartLabel(T)))] :
                           F \in {NewLabel(L.E)},
                           T \in {[L.S EXCEPT !.entries =
                                     Append(@, [label |-> Len(L.E.objs) + 1,
                                                text |-> text])]}}) :
              hits \in {Sharing(L.S.entries, text)}}) :
        L \in {L0}})

\* One turn of layout_table's loop over unique: L holds the emitter, the
\* table and the offsets dict.
PlaceText(L0, text) ==
  Only({Only({IF hits # {}
                THEN LET j == CHOOSE k \in hits : \A m \in hits : k <= m
                         etext == L.S.entries[j].text
                     IN [L EXCEPT !.offsets = @ @@ (text :>
                                    PlusV(L.offsets[etext], Len(etext) - Len(text)))]
                ELSE Only({[E |-> F, S |-> T,
                            offsets |-> L.offsets @@
                              (text :> LabelSub(F, Len(F.objs), StartLabel(T)))] :
                           F \in {NewLabel(L.E)},
                           T \in {[L.S EXCEPT !.entries =
                                     Append(@, [label |-> Len(L.E.objs) + 1,
                                                text |-> text])]}}) :
              hits \in {Sharing(L.S.entries, text)}}) :
        L \in {L0}})

\* The loop of layout_table over unique, from its j-th text on.
RECURSIVE PlaceAll(_, _, _)
PlaceAll(L, unique, j) ==
  IF j > Len(unique) THEN L ELSE PlaceAll(PlaceText(L, unique[j]), unique, j + 1)

\* The texts of strs in the order of their first registration
RECURSIVE FirstRegistered(_, _)
FirstRegistered(strs, h) ==
  IF h > Len(strs) THEN <<>>
  ELSE (IF \E g \in 1..(h - 1) : strs[g].text = strs[h].text
          THEN <<>> ELSE <<strs[h].text>>) \o FirstRegistered(strs, h + 1)

\* layout_table without unique.sort: the texts are placed in the order of
\* their registration
LayoutTableUnsorted(E0, S0) ==
  Only({Only({[E |-> L.E,
               S |-> [L.S EXCEPT !.strings =
                        [h \in 1..Len(S.strings) |->
                           [S.strings[h] EXCEPT
                              !.offset = L.offsets[S.strings[h].text]]]]] :
              L \in {PlaceAll([E |-> E, S |-> S, offsets |-> <<>>],
                              FirstRegistered(S.strings, 1), 1)}}) :
        E \in {E0}, S \in {S0}})

\* StringTable.layout_table, with the emitter whose new_label it is given;
\* the result holds the emitter (E) and the table (S) afterwards.
LayoutTable(E0, S0) ==
  Only({Only({[E |-> L.E,
               S |-> [L.S EXCEPT !.strings =
                        [h \in 1..Len(S.strings) |->
                           [S.strings[h] EXCEPT
                              !.offset = L.offsets[S.strings[h].text]]]]] :
              L \in {PlaceAll([E |-> E, S |-> S, offsets |-> <<>>],
                              SortUnique({S.strings[h].text : h \in 1..Len(S.strings)}),
                              1)}}) :
        E \in {E0}, S \in {S0}})

\* StringTable.emit
RECURSIVE StringTableEmitFrom(_, _, _)
StringTableEmitFrom(E, S, j) ==
  IF j > Len(S.entries) THEN E
  ELSE StringTableEmitFrom(
         Emit(EmitLabel(E, S.entries[j].label), ".string",
              TextV(S.entries[j].text), ""),
         S, j + 1)

StringTableEmit(E, S) == StringTableEmitFrom(E, S, 1)


\* ------------------------------------------------------------------------
\* AutosTable.  A holds its entries: four Strings each, provider, name,
\* args and rets, the last two NoString for a symbol reference.  T is the
\* pair of the string table S and the autos table A that shares it.
\* ------------------------------------------------------------------------

NoString == 0

\* AutosTable.add_entry without args and rets
AddEntry2(T0, fullname) ==
  Only({LET S1 == StringTableNew(T.S, fullname.provider)
            S2 == StringTableNew(S1, fullname.name)
        IN [S |-> S2,
            A |-> Append(T.A, [prov |-> Len(S1.strings), name |-> Len(S2.strings),
                               args |-> NoString, rets |-> NoString])] :
        T \in {T0}})

\* add_entry that drops args and rets
AddEntry4AsSymbol(T0, fullname, args, rets) == AddEntry2(T0, fullname)

\* AutosTable.add_entry with args and rets
AddEntry4(T0, fullname, args, rets) ==
  Only({LET S1 == StringTableNew(T.S, fullname.provider)
            S2 == StringTableNew(S1, fullname.name)
            S3 == StringTableNew(S2, args)
            S4 == StringTableNew(S3, rets)
        IN [S |-> S4,
            A |-> Append(T.A, [prov |-> Len(S1.strings), name |-> Len(S2.strings),
                               args |-> Len(S3.strings), rets |-> Len(S4.strings)])] :
        T \in {T0}})

\* AutosTable.visit_funcref
AutosVisitFuncref(T, funcref) ==
  AddEntry4(T, funcref.name, funcref.paramtypes, funcref.returntypes)

\* AutosTable.visit_symbolref
AutosVisitSymbolref(T, symref) == AddEntry2(T, symref.name)

\* AutosTable.emit, from entry j on; the comments are "auto <index> ...".
RECURSIVE AutosEmitFrom(_, _, _, _)
AutosEmitFrom(E, S, A, j) ==
  IF j > Len(A) THEN E
  ELSE LET prefix == "auto " \o ToString(j - 1) \o " "
           E1 == Emit2byte(E, S.strings[A[j].prov].offset, prefix \o "provider offset")
           E2 == Emit2byte(E1, S.strings[A[j].name].offset, prefix \o "name offset")
       IN IF A[j].args = NoString
            THEN AutosEmitFrom(
                   Emit4byte(E2, IntV(Zero), prefix \o "reserved bytes"), S, A, j + 1)
            ELSE AutosEmitFrom(
                   Emit2byte(
                     Emit2byte(E2, S.strings[A[j].args].offset, prefix \o "ptypes offset"),
                     S.strings[A[j].rets].offset, prefix \o "rtypes offset"),
                   S, A, j + 1)

AutosEmit(E, S, A) == AutosEmitFrom(E, S, A, 1)

\* AutosTable.emit that reads no offset before it writes
AutosEmitUnchecked(E, S, A, j) == [E |-> AutosEmitFrom(E, S, A, j), failed |-> FALSE]

\* AutosTable.emit, from entry j on, with the AttributeError of a String
\* that has no offset: the result is the emitter and whether emit failed.
\* The offset is read before emit_2byte is called with it.
RECURSIVE AutosEmitChecked(_, _, _, _)
AutosEmitChecked(E, S, A, j) ==
  IF j > Len(A) THEN [E |-> E, failed |-> FALSE]
  ELSE LET prefix == "auto " \o ToString(j - 1) \o " "
           E1 == Emit2byte(E, S.strings[A[j].prov].offset, prefix \o "provider offset")
           E2 == Emit2byte(E1, S.strings[A[j].name].offset, prefix \o "name offset")
           E3 == Emit2byte(E2, S.strings[A[j].args].offset, prefix \o "ptypes offset")
           E4 == Emit2byte(E3, S.strings[A[j].rets].offset, prefix \o "rtypes offset")
       IN IF S.strings[A[j].prov].offset = NoV THEN [E |-> E, failed |-> TRUE]
          ELSE IF S.strings[A[j].name].offset = NoV THEN [E |-> E1, failed |-> TRUE]
          ELSE IF A[j].args = NoString
            THEN AutosEmitChecked(
                   Emit4byte(E2, IntV(Zero), prefix \o "reserved bytes"), S, A, j + 1)
          ELSE IF S.strings[A[j].args].offset = NoV THEN [E |-> E2, failed |-> TRUE]
          ELSE IF S.strings[A[j].rets].offset = NoV THEN [E |-> E3, failed |-> TRUE]
          ELSE AutosEmitChecked(E4, S, A, j + 1)


\* ------------------------------------------------------------------------
\* Emitter: the bytecode.  An operation is a record: kind (its class),
\* dwarfname, target (the index in the stream of the operation
\* stream.jumps gives it, 0 if none), value, sized (whether its type has a
\* sized type) and slot.  Its fileline is the comment "fileline".
\* ------------------------------------------------------------------------

Op(kind, dwarfname, target, value, sized, slot) ==
  [kind |-> kind, dwarfname |-> dwarfname, target |-> target, value |-> value,
   sized |-> sized, slot |-> slot]

\* Emitter.emit_simple_op
EmitSimpleOp(E, op) == EmitOp(E, op.dwarfname, "fileline")

\* emit_branch_op with the source label emitted before the offset field
EmitBranchOpSourceFirst(E0, labels, op) ==
  Only({Only({EmitDiff(EmitLabel(EmitSimpleOp(F, op), source),
                       ".2byte", target, source, "") :
              target \in {labels[op.target]}, source \in {Len(F.objs)}}) :
        F \in {NewLabel(E0)}})

\* Emitter.emit_branch_op; labels is self.labels, from an operation's index
\* to its label.
EmitBranchOp(E0, labels, op) ==
  Only({Only({EmitLabel(EmitDiff(EmitSimpleOp(F, op),
                                 ".2byte", target, source, ""),
                        source) :
              target \in {labels[op.target]}, source \in {Len(F.objs)}}) :
        F \in {NewLabel(E0)}})

\* visit_constop with the fixed-width forms only: without the branches
\* that choose constu and consts below 1 << 64 and from -(1 << 63) on
ConstopWide(E, value) ==
  IF IntGeq(value, Zero)
    THEN IF IntLess(value, PyInt(32))
           THEN EmitOp(E, "lit" \o ToString(PyNat(value)), "fileline")
         ELSE IF IntLess(value, Shl1(8))
           THEN EmitByte(EmitOp(E, "const1u", "fileline"), IntV(value), "")
         ELSE IF IntLess(value, Shl1(16))
           THEN Emit2byte(EmitOp(E, "const2u", "fileline"), IntV(value), "")
         ELSE IF IntLess(value, Shl1(32))
           THEN Emit4byte(EmitOp(E, "const4u", "fileline"), IntV(value), "")
         ELSE IF IntLess(value, Shl1(64))
           THEN Emit8byte(EmitOp(E, "const8u", "fileline"), IntV(value), "")
         ELSE EmitUleb128(EmitOp(E, "constu", "fileline"), IntV(value), "")
    ELSE IF IntGeq(value, IntNeg(Shl1(7)))
           THEN EmitByte(EmitOp(E, "const1s", "fileline"), IntV(value), "")
         ELSE IF IntGeq(value, IntNeg(Shl1(15)))
           THEN Emit2byte(EmitOp(E, "const2s", "fileline"), IntV(value), "")
         ELSE IF IntGeq(value, IntNeg(Shl1(31)))
           THEN Emit4byte(EmitOp(E, "const4s", "fileline"), IntV(value), "")
         ELSE IF IntGeq(value, IntNeg(Shl1(63)))
           THEN Emit8byte(EmitOp(E, "const8s", "fileline"), IntV(value), "")
         ELSE EmitSleb128(EmitOp(E, "consts", "fileline"), IntV(value), "")

\* visit_constop with <= for < in the comparisons with 0x20 and 1 << 8
ConstopOffByOne(E, value) ==
  IF IntGeq(value, Zero)
    THEN IF ~IntLess(PyInt(32), value)
           THEN EmitOp(E, "lit" \o ToString(PyNat(value)), "fileline")
         ELSE IF ~IntLess(Shl1(8), value)
           THEN EmitByte(EmitOp(E, "const1u", "fileline"), IntV(value), "")
         ELSE IF IntLess(value, Shl1(16))
           THEN Emit2byte(EmitOp(E, "const2u", "fileline"), IntV(value), "")
         ELSE IF IntLess(value, Shl1(21))
           THEN EmitUleb128(EmitOp(E, "constu", "fileline"), IntV(value), "")
         ELSE IF IntLess(value, Shl1(32))
           THEN Emit4byte(EmitOp(E, "const4u", "fileline"), IntV(value), "")
         ELSE IF IntLess(value, Shl1(49))
           THEN EmitUleb128(EmitOp(E, "constu", "fileline"), IntV(value), "")
         ELSE IF IntLess(value, Shl1(64))
           THEN Emit8byte(EmitOp(E, "const8u", "fileline"), IntV(value), "")
         ELSE EmitUleb128(EmitOp(E, "constu", "fileline"), IntV(value), "")
    ELSE IF IntGeq(value, IntNeg(Shl1(7)))
           THEN EmitByte(EmitOp(E, "const1s", "fileline"), IntV(value), "")
         ELSE IF IntGeq(value, IntNeg(Shl1(15)))
           THEN Emit2byte(EmitOp(E, "const2s", "fileline"), IntV(value), "")
         ELSE IF IntGeq(value, IntNeg(Shl1(20)))
           THEN EmitSleb128(EmitOp(E, "consts", "fileline"), IntV(value), "")
         ELSE IF IntGeq(value, IntNeg(Shl1(31)))
           THEN Emit4byte(EmitOp(E, "const4s", "fileline"), IntV(value), "")
         ELSE IF IntGeq(value, IntNeg(Shl1(48)))
           THEN EmitSleb128(EmitOp(E, "consts", "fileline"), IntV(value), "")
         ELSE IF IntGeq(value, IntNeg(Shl1(63)))
           THEN Emit8byte(EmitOp(E, "const8s", "fileline"), IntV(value), "")
         ELSE EmitSleb128(EmitOp(E, "consts", "fileline"), IntV(value), "")

\* Emitter.visit_constop, value = op.value
Constop(E, value) ==
  IF IntGeq(value, Zero)
    THEN IF IntLess(value, PyInt(32))
           THEN EmitOp(E, "lit" \o ToString(PyNat(value)), "fileline")
         ELSE IF IntLess(value, Shl1(8))
           THEN EmitByte(EmitOp(E, "const1u", "fileline"), IntV(value), "")
         ELSE IF IntLess(value, Shl1(16))
           THEN Emit2byte(EmitOp(E, "const2u", "fileline"), IntV(value), "")
         ELSE IF IntLess(value, Shl1(21))
           THEN EmitUleb128(EmitOp(E, "constu", "fileline"), IntV(value), "")
         ELSE IF IntLess(value, Shl1(32))
           THEN Emit4byte(EmitOp(E, "const4u", "fileline"), IntV(value), "")
         ELSE IF IntLess(value, Shl1(49))
           THEN EmitUleb128(EmitOp(E, "constu", "fileline"), IntV(value), "")
         ELSE IF IntLess(value, Shl1(64))
           THEN Emit8byte(EmitOp(E, "const8u", "fileline"), IntV(value), "")
         ELSE EmitUleb128(EmitOp(E, "constu", "fileline"), IntV(value), "")
    ELSE IF IntGeq(value, IntNeg(Shl1(7)))
           THEN EmitByte(EmitOp(E, "const1s", "fileline"), IntV(value), "")
         ELSE IF IntGeq(value, IntNeg(Shl1(15)))
           THEN Emit2byte(EmitOp(E, "const2s", "fileline"), IntV(value), "")
         ELSE IF IntGeq(value, IntNeg(Shl1(20)))
           THEN EmitSleb128(EmitOp(E, "consts", "fileline"), IntV(value), "")
         ELSE IF IntGeq(value, IntNeg(Shl1(31)))
           THEN Emit4byte(EmitOp(E, "const4s", "fileline"), IntV(value), "")
         ELSE IF IntGeq(value, IntNeg(Shl1(48)))
           THEN EmitSleb128(EmitOp(E, "consts", "fileline"), IntV(value), "")
         ELSE IF IntGeq(value, IntNeg(Shl1(63)))
           THEN Emit8byte(EmitOp(E, "const8s", "fileline"), IntV(value), "")
         ELSE EmitSleb128(EmitOp(E, "consts", "fileline"), IntV(value), "")

VisitConstop(E, op) == Constop(E, op.value)

\* The test of visit_derefop taken as never true
DerefNeverRaises(op) == FALSE

\* Emitter.visit_derefop raises NotImplementedError for these.
DerefRaises(op) == op.kind = "deref" /\ op.sized

\* Emitter.visit_derefop, when it does not raise
VisitDerefop(E, op) == EmitOp(E, "deref", "fileline")

\* Emitter.visit_pickop
VisitPickop(E, op) ==
  IF op.slot = 0 THEN EmitSimpleOp(E, op)
  ELSE IF op.slot = 1 THEN EmitSimpleOp(E, op)
  ELSE EmitByte(EmitOp(E, "pick", "fileline"), IntV(PyInt(op.slot)), "")

\* op.accept(self): the visit_ method of the operation's class
Accept(E, labels, op) ==
  CASE op.kind \in {"branch", "goto"} -> EmitBranchOp(E, labels, op)
    [] op.kind \in {"call", "compare", "drop", "dup", "over", "rot", "swap"} ->
         EmitSimpleOp(E, op)
    [] op.kind = "const" -> VisitConstop(E, op)
    [] op.kind = "deref" -> VisitDerefop(E, op)
    [] op.kind = "pick" -> VisitPickop(E, op)
    [] op.kind \in {"name", "stop"} -> E

\* One turn of visit_operationstream's loop: the operation at index.
VisitStreamOp(E, labels, index, op) ==
  Accept(IF index \in DOMAIN labels THEN EmitLabel(E, labels[index]) ELSE E,
         labels, op)

\* ------------------------------------------------------------------------
\* Emitter: the note of a function.  A function is a record: provider,
\* shortname and ident (of function.name), userparams (the encodings of
\* the user parameters' types), autoparams (funcref and symbolref records),
\* returntypes (encodings), max_stack, and of its operation stream nops
\* (the number of operations) and labels (the indexes of the operations
\* in stream.labels, in the order stream.labels.keys() gives them).
\* ------------------------------------------------------------------------

TextGNU == <<71, 78, 85>>

\* The Strings __visit_function registers first.
Provider == 1
Name == 2
Userptypes == 3
Autoptypes == 4
Returntypes == 5

\* Emitter.visit_parameter
VisitParameter(T, encoding) ==
  [T EXCEPT !.S = StringAppend(@, Userptypes, <<encoding>>)]

\* visit_funcref that appends "s"
VisitFuncrefS(T, funcref) ==
  AutosVisitFuncref([T EXCEPT !.S = StringAppend(@, Autoptypes, <<115>>)], funcref)

\* Emitter.visit_funcref
VisitFuncref(T, funcref) ==
  AutosVisitFuncref([T EXCEPT !.S = StringAppend(@, Autoptypes, <<102>>)], funcref)

\* Emitter.visit_symbolref
VisitSymbolref(T, symref) ==
  AutosVisitSymbolref([T EXCEPT !.S = StringAppend(@, Autoptypes, <<115>>)], symref)

\* Emitter.visit_userparams
RECURSIVE VisitUserparams(_, _)
VisitUserparams(T, children) ==
  IF children = <<>> THEN T
  ELSE VisitUserparams(VisitParameter(T, Head(children)), Tail(children))

\* Emitter.visit_autoparams
RECURSIVE VisitAutoparams(_, _)
VisitAutoparams(T, children) ==
  IF children = <<>> THEN T
  ELSE VisitAutoparams(
         IF Head(children).kind = "funcref"
           THEN VisitFuncref(T, Head(children))
           ELSE VisitSymbolref(T, Head(children)),
         Tail(children))

\* Emitter.visit_returntypes
RECURSIVE VisitReturntypes(_, _)
VisitReturntypes(T, children) ==
  IF children = <<>> THEN T
  ELSE VisitReturntypes(
         [T EXCEPT !.S = StringAppend(@, Returntypes, <<Head(children)>>)],
         Tail(children))

\* __visit_function, "Populate the tables"
Populate(function) ==
  LET S1 == StringTableNew(NewStringTable, function.provider)
      S2 == StringTableNew(S1, function.shortname)
      S3 == StringTableNew(S2, <<>>)
      S4 == StringTableNew(S3, <<>>)
      S5 == StringTableNew(S4, <<>>)
      T1 == VisitUserparams([S |-> S5, A |-> <<>>], function.userparams)
      T2 == VisitAutoparams(T1, function.autoparams)
  IN VisitReturntypes(T2, function.returntypes)

\* visit_operationstream, the labels of the operations in stream.labels
RECURSIVE StreamLabels(_, _, _)
StreamLabels(E, labels, keys) ==
  IF keys = <<>> THEN [E |-> E, labels |-> labels]
  ELSE Only({StreamLabels(F, labels @@ (Head(keys) :> Len(F.objs)), Tail(keys)) :
             F \in {NewLabel(E)}})

\* The labels visit_function and __visit_function keep in local variables,
\* by the number of Label objects there were before the first of them.
Frame(n) ==
  [namestart |-> n + 1, namelimit |-> n + 2, descstart |-> n + 3,
   desclimit |-> n + 4, headerstart |-> n + 5, codestart |-> n + 6,
   autosstart |-> n + 7]

\* visit_function up to its call of __visit_function, with the namelimit
\* label emitted before the name
NoteBeginLimitFirst(E0, function) ==
  Only({LET frame == Frame(Len(E.objs))
            N4 == NewLabel(NewLabel(NewLabel(NewLabel(E))))
            E1 == EmitNewline(N4)
            E2 == EmitComment(E1, function.ident)
            E3 == EmitDiff(E2, ".4byte", frame.namelimit, frame.namestart, "namesz")
            E4 == EmitDiff(E3, ".4byte", frame.desclimit, frame.descstart, "descsz")
            E5 == Emit4byte(E4, SymV("NT_GNU_INFINITY"), "")
            E6 == EmitLabel(E5, frame.namestart)
            E7 == EmitLabel(E6, frame.namelimit)
            E8 == Emit(E7, ".string", TextV(TextGNU), "")
            E9 == Emit(E8, ".balign", IntV(PyInt(4)), "")
        IN EmitLabel(E9, frame.descstart) :
        E \in {E0}})

\* visit_function up to its call of __visit_function
NoteBegin(E0, function) ==
  Only({LET frame == Frame(Len(E.objs))
            N4 == NewLabel(NewLabel(NewLabel(NewLabel(E))))
            E1 == EmitNewline(N4)
            E2 == EmitComment(E1, function.ident)
            E3 == EmitDiff(E2, ".4byte", frame.namelimit, frame.namestart, "namesz")
            E4 == EmitDiff(E3, ".4byte", frame.desclimit, frame.descstart, "descsz")
            E5 == Emit4byte(E4, SymV("NT_GNU_INFINITY"), "")
            E6 == EmitLabel(E5, frame.namestart)
            E7 == Emit(E6, ".string", TextV(TextGNU), "")
            E8 == EmitLabel(E7, frame.namelimit)
            E9 == Emit(E8, ".balign", IntV(PyInt(4)), "")
        IN EmitLabel(E9, frame.descstart) :
        E \in {E0}})

\* The function header with the headerstart label before the note header
HeaderEmitLabelFirst(R, frame, function) ==
  LET S == R.S
      H0 == EmitLabel(R.E, frame.headerstart)
      H1 == Emit2byte(H0, SymV("ELF_NOTE_I8_FUNCTION"), "")
      H2 == Emit2byte(H1, IntV(PyInt(1)), "version")
      H4 == EmitDiff(H2, ".2byte", frame.codestart, frame.headerstart, "header size")
      H5 == EmitDiff(H4, ".2byte", frame.autosstart, frame.codestart, "code size")
      H6 == EmitDiff(H5, ".2byte", StartLabel(S), frame.autosstart, "autos size")
      H7 == Emit2byte(H6, S.strings[Provider].offset, "provider offset")
      H8 == Emit2byte(H7, S.strings[Name].offset, "name offset")
      H9 == Emit2byte(H8, S.strings[Userptypes].offset, "param types offset")
      H10 == Emit2byte(H9, S.strings[Returntypes].offset, "return types offset")
      H11 == Emit2byte(H10, S.strings[Autoptypes].offset, "autos types offset")
      H12 == Emit2byte(H11, IntV(PyInt(function.max_stack)), "max stack")
  IN EmitLabel(H12, frame.codestart)

\* __visit_function from "Emit the Infinity note header" up to
\* function.ops.accept; R is what layout_table left, frame the labels.
HeaderEmit(R, frame, function) ==
  LET S == R.S
      H1 == Emit2byte(R.E, SymV("ELF_NOTE_I8_FUNCTION"), "")
      H2 == Emit2byte(H1, IntV(PyInt(1)), "version")
      H3 == EmitLabel(H2, frame.headerstart)
      H4 == EmitDiff(H3, ".2byte", frame.codestart, frame.headerstart, "header size")
      H5 == EmitDiff(H4, ".2byte", frame.autosstart, frame.codestart, "code size")
      H6 == EmitDiff(H5, ".2byte", StartLabel(S), frame.autosstart, "autos size")
      H7 == Emit2byte(H6, S.strings[Provider].offset, "provider offset")
      H8 == Emit2byte(H7, S.strings[Name].offset, "name offset")
      H9 == Emit2byte(H8, S.strings[Userptypes].offset, "param types offset")
      H10 == Emit2byte(H9, S.strings[Returntypes].offset, "return types offset")
      H11 == Emit2byte(H10, S.strings[Autoptypes].offset, "autos types offset")
      H12 == Emit2byte(H11, IntV(PyInt(function.max_stack)), "max stack")
  IN EmitLabel(H12, frame.codestart)

\* visit_function up to its call of __visit_function, then __visit_function
\* up to function.ops.accept, then visit_operationstream up to its loop.
\* The result holds the emitter (E), the tables (S, A), self.labels and
\* the labels the two methods keep in local variables (frame).
FunctionBegin(E0, function) ==
  Only({Only({Only({[E |-> L.E, S |-> R.S, A |-> T.A, labels |-> L.labels,
                     frame |-> frame] :
                    L \in {StreamLabels(HeaderEmit(R, frame, function), <<>>,
                                        function.labels)}}) :
              R \in {LayoutTable(NewLabel(NewLabel(NewLabel(N))), T.S)}}) :
        N \in {NoteBegin(E0, function)},
        T \in {Populate(function)},
        frame \in {Frame(Len(E0.objs))}})

\* The end of __visit_function with the autos table emitted before the
\* autosstart label
FunctionEndAutosFirst(E, S, A, frame) ==
  LET E1 == AutosEmit(E, S, A)
      E2 == EmitLabel(E1, frame.autosstart)
      E3 == StringTableEmit(E2, S)
      E4 == EmitLabel(E3, frame.desclimit)
  IN Emit(E4, ".balign", IntV(PyInt(4)), "")

\* __visit_function after function.ops.accept, then the rest of
\* visit_function.
FunctionEnd(E, S, A, frame) ==
  LET E1 == EmitLabel(E, frame.autosstart)
      E2 == AutosEmit(E1, S, A)
      E3 == StringTableEmit(E2, S)
      E4 == EmitLabel(E3, frame.desclimit)
  IN Emit(E4, ".balign", IntV(PyInt(4)), "")

\* visit_toplevel up to its loop, without the .balign 4
ToplevelBeginNoAlign(E) ==
  LET E1 == Emit(E, "#define", DefV("NT_GNU_INFINITY", 5), "")
      E2 == Emit(E1, "#define", DefV("ELF_NOTE_I8_FUNCTION", 1), "")
      E3 == EmitNewline(E2)
  IN Emit(E3, ".section", SymV(".note.infinity, \"\", \"note\""), "")

\* visit_toplevel up to its loop over toplevel.functions
ToplevelBegin(E) ==
  LET E1 == Emit(E, "#define", DefV("NT_GNU_INFINITY", 5), "")
      E2 == Emit(E1, "#define", DefV("ELF_NOTE_I8_FUNCTION", 1), "")
      E3 == EmitNewline(E2)
      E4 == Emit(E3, ".section", SymV(".note.infinity, \"\", \"note\""), "")
  IN Emit(E4, ".balign", IntV(PyInt(4)), "")

\* ------------------------------------------------------------------------
\* The assembler's reading of the listing
\* ------------------------------------------------------------------------

\* The number of bytes of the unsigned LEB128 form of x >= 0.
UlebLen(x) == IF x.mag = <<>> THEN 1 ELSE Len(x.mag)

\* The number of bytes of the signed LEB128 form of x: the least n with
\* -2^(7n-1) <= x < 2^(7n-1).
SlebLen(x) ==
  CHOOSE n \in 1..(Len(x.mag) + 1) :
    /\ IF x.neg THEN ~MagLess(Pow2Mag(7 * n - 1), x.mag)
                ELSE MagLess(x.mag, Pow2Mag(7 * n - 1))
    /\ \A m \in 1..(n - 1) :
         IF x.neg THEN MagLess(Pow2Mag(7 * m - 1), x.mag)
                  ELSE ~MagLess(x.mag, Pow2Mag(7 * m - 1))

\* The bytes a line assembles to at address addr.  Only the bytes of a
\* .string matter here; the others are written as -1.
LineBytes(line, addr) ==
  CASE line.dir = ".byte" -> <<-1>>
    [] line.dir = ".2byte" -> <<-1, -1>>
    [] line.dir = ".4byte" -> <<-1, -1, -1, -1>>
    [] line.dir = ".8byte" -> <<-1, -1, -1, -1, -1, -1, -1, -1>>
    [] line.dir = ".uleb128" -> [i \in 1..UlebLen(line.val.i) |-> -1]
    [] line.dir = ".sleb128" -> [i \in 1..SlebLen(line.val.i) |-> -1]
    [] line.dir = ".string" -> line.val.t \o <<0>>
    [] line.dir = ".balign" -> [i \in 1..((4 - (addr % 4)) % 4) |-> -1]
    [] OTHER -> <<>>

\* The bytes of the lines a..b of out, the first of them at address addr.
RECURSIVE ImageFrom(_, _, _, _)
ImageFrom(out, a, b, addr) ==
  IF a > b THEN <<>>
  ELSE IF a = b THEN LineBytes(out[a], addr)
  ELSE LET mid == (a + b) \div 2
           left == ImageFrom(out, a, mid, addr)
       IN left \o ImageFrom(out, mid + 1, b, addr + Len(left))

\* The section's bytes after the first n lines of out.
Image(out, n) == ImageFrom(out, 1, n, 0)

\* The address at which line n of out starts.
Addr(out, n) == Len(Image(out, n - 1))

\* The line that defines the label a reference on line pos means: the last
\* "N:" at or before pos for Nb, the first one after pos for Nf; 0 if none.
Resolve(out, pos, ref) ==
  LET defs == {j \in 1..Len(out) : out[j].lab = ref.name}
      back == {j \in defs : j <= pos}
      forw == {j \in defs : j > pos}
  IN IF ref.dir = "b"
       THEN IF back = {} THEN 0 ELSE CHOOSE j \in back : \A k \in back : k <= j
       ELSE IF forw = {} THEN 0 ELSE CHOOSE j \in forw : \A k \in forw : j <= k

RefAddr(out, pos, ref) == Addr(out, Resolve(out, pos, ref))

\* Whether the labels an operand written on line pos refers to are defined.
Defined(out, pos, v) ==
  v.a # NoRef => Resolve(out, pos, v.a) # 0 /\ Resolve(out, pos, v.b) # 0

\* The value of an "expr" operand written on line pos.
Eval(out, pos, v) ==
  (IF v.a = NoRef THEN 0 ELSE RefAddr(out, pos, v.a) - RefAddr(out, pos, v.b))
    + (IF v.p >= 0 THEN v.p ELSE 0)

\* The NUL-terminated sequence that starts at address addr (the image's
\* first byte is address 0).
RECURSIVE CString(_, _)
CString(image, addr) ==
  IF addr + 1 > Len(image) \/ image[addr + 1] = 0 THEN <<>>
  ELSE <<image[addr + 1]>> \o CString(image, addr + 1)

\* ------------------------------------------------------------------------
\* State
\* ------------------------------------------------------------------------

VARIABLES
  pc,          \* where the run is
  num_labels,  \* Emitter.num_labels
  label,       \* Emitter.__label
  opcodes,     \* the names in Emitter.opcodes
  output,      \* the lines given to Emitter.write
  objs,        \* the Label objects
  strings,     \* StringTable.strings
  entries,     \* StringTable.entries
  autos,       \* Emitter.autos.entries
  function,    \* the function visit_function is visiting
  labels,      \* Emitter.labels
  frame,       \* the labels visit_function and __visit_function hold
  ops,         \* the operations of the function's stream visited so far
  oplines,     \* for each of them, the lines written in its turn of the loop
  nfuncs,      \* the number of functions visited
  nops,        \* the number of operations of the functions visited
  children,    \* the copies of a CompilerTask that __fork made
  forked,      \* what __fork returned or raised
  filenames,   \* CompilerTask.__filenames
  lock,        \* the child that holds CompilerTask.__filenames_lock
  input,       \* the text given to TestCompiler.preprocess
  preprocessed, \* what it returned
  assemblers,  \* the variants of AssemblerManager
  compilecounts \* TestCase.__compilecounts

vars ==
  <<pc, num_labels, label, opcodes, output, objs, strings, entries, autos,
    function, labels, frame, ops, oplines, nfuncs, nops,
    children, forked, filenames, lock, input, preprocessed,
    assemblers, compilecounts>>

Em ==
  [num_labels |-> num_labels, label |-> label, opcodes |-> opcodes,
   output |-> output, objs |-> objs]

SetEm(E) ==
  /\ num_labels' = E.num_labels
  /\ label' = E.label
  /\ opcodes' = E.opcodes
  /\ output' = E.output
  /\ objs' = E.objs

Tab == [strings |-> strings, entries |-> entries]

SetTab(S) ==
  /\ strings' = S.strings
  /\ entries' = S.entries

EmInit(E) ==
  /\ num_labels = E.num_labels
  /\ label = E.label
  /\ opcodes = E.opcodes
  /\ output = E.output
  /\ objs = E.objs

TabInit(S) ==
  /\ strings = S.strings
  /\ entries = S.entries

emvars == <<num_labels, label, opcodes, output, objs>>
tabvars == <<strings, entries>>
testvars == <<children, forked, filenames, lock, input, preprocessed,
    assemblers, compilecounts>>
funvars == <<autos, function, labels, frame, ops, oplines, nfuncs, nops, testvars>>

NoFrame ==
  [namestart |-> NoLabel, namelimit |-> NoLabel, descstart |-> NoLabel,
   desclimit |-> NoLabel, headerstart |-> NoLabel, codestart |-> NoLabel,
   autosstart |-> NoLabel]

NoFunction ==
  [provider |-> <<>>, shortname |-> <<>>, ident |-> "", userparams |-> <<>>,
   autoparams |-> <<>>, returntypes |-> <<>>, max_stack |-> 0, nops |-> 0,
   labels |-> <<>>]

\* No child holds the lock.
NoChild == 0

\* __fork has neither returned nor raised.
NotForked == [kind |-> "none", value |-> <<>>]

\* The test harness is not in use.
TestInit ==
  /\ children = <<>>
  /\ forked = NotForked
  /\ filenames = {}
  /\ lock = NoChild
  /\ input = <<>>
  /\ preprocessed = <<>>
  /\ assemblers = {}
  /\ compilecounts = {}

\* No function is being visited.
NoFunctionVisited ==
  /\ autos = <<>>
  /\ function = NoFunction
  /\ labels = <<>>
  /\ frame = NoFrame
  /\ ops = <<>>
  /\ oplines = <<>>
  /\ nfuncs = 0
  /\ nops = 0

\* The emitter is used outside the test harness.
FunInit == TestInit /\ NoFunctionVisited

\* ------------------------------------------------------------------------
\* A StringTable on its own: Strings are registered and appended to, the
\* table is laid out with an emitter's new_label and emitted to it.
\* ------------------------------------------------------------------------

\* The characters "a" and "b".
Chars == {97, 98}

Texts == UNION {[1..n -> Chars] : n \in 0..MaxLen}



StrInit ==
  /\ pc = "populate"
  /\ EmInit(NewEmitter)
  /\ TabInit(NewStringTable)
  /\ FunInit

\* table.new(text)
StrNew ==
  /\ pc = "populate"
  /\ ~IsLaidOut(Tab)
  /\ Len(strings) < MaxStrings
  /\ \E text \in Texts : SetTab(StringTableNew(Tab, text))
  /\ UNCHANGED <<pc, emvars, funvars>>

\* string.append(more), more one character
StrAppend ==
  /\ pc = "populate"
  /\ \E h \in 1..Len(strings), c \in Chars :
       /\ Len(strings[h].text) < MaxLen
       /\ SetTab(StringAppend(Tab, h, <<c>>))
  /\ UNCHANGED <<pc, emvars, funvars>>

\* table.layout_table(emitter.new_label)
StrLayout ==
  /\ pc = "populate"
  /\ ~IsLaidOut(Tab)
  /\ \E R \in {LayoutTable(Em, Tab)} : SetEm(R.E) /\ SetTab(R.S)
  /\ pc' = "laid"
  /\ UNCHANGED funvars

\* table.emit(emitter)
StrEmit ==
  /\ pc = "laid"
  /\ \E E \in {StringTableEmit(Em, Tab)} : SetEm(E)
  /\ pc' = "emitted"
  /\ UNCHANGED <<tabvars, funvars>>

StrNext == StrNew \/ StrAppend \/ StrLayout \/ StrEmit

SpecStrings == StrInit /\ [][StrNext]_vars

\* ------------------------------------------------------------------------
\* Properties of the string pool
\* ------------------------------------------------------------------------

Handles == 1..Len(strings)

\* The address of the pool's start label, defined after line pos.
PoolStart(pos) ==
  RefAddr(output, pos, [name |-> objs[entries[1].label].name, dir |-> "f"])

\* The byte value of a String's offset, written on a line before the pool.
OffsetOf(h) == Eval(output, 0, strings[h].offset)

\* The emitted pool: each entry's text followed by one NUL, in entry order.
RECURSIVE PoolOf(_, _)
PoolOf(ents, j) ==
  IF j > Len(ents) THEN <<>> ELSE ents[j].text \o <<0>> \o PoolOf(ents, j + 1)

\* C1: after layout_table and emit, every handle's offset, resolved against
\* the emitted pool and measured from the first entry's label, is the first
\* byte of a NUL-terminated sequence equal to the handle's text.
C1_PoolCorrect ==
  pc = "emitted" =>
    /\ Image(output, Len(output)) = PoolOf(entries, 1)
    /\ \A h \in Handles :
         /\ strings[h].offset.k = "expr"
         /\ Defined(output, 0, strings[h].offset)
         /\ CString(Image(output, Len(output)), PoolStart(0) + OffsetOf(h))
              = strings[h].text

\* The pool is emitted and a text shares the tail of an entry that is not
\* the first.
C1_Witness ==
  /\ pc = "emitted"
  /\ \E h \in Handles :
       /\ strings[h].offset.p > 0
       /\ strings[h].offset.a # NoRef

\* C2 as stated: whenever T1 is a suffix of T2, both registered,
\* offset(T1) = offset(T2) + len(T2) - len(T1) as byte values.
C2_SuffixEquation ==
  pc = "emitted" =>
    \A h1, h2 \in Handles :
      EndsWith(strings[h2].text, strings[h1].text) =>
        OffsetOf(h1) = OffsetOf(h2) + Len(strings[h2].text) - Len(strings[h1].text)

\* The first entry, in entry order, whose text ends with text.
FirstSharing(text) ==
  CHOOSE j \in Sharing(entries, text) : \A k \in Sharing(entries, text) : j <= k

\* The byte offset of entry j from the first entry's label.
EntryOffset(j) == Len(PoolOf(SubSeq(entries, 1, j - 1), 1))

\* C2 amended: offset(T1) = offset(E) + len(E) - len(T1) for the first entry
\* E, in entry order, whose text ends with T1; and the equation between T1
\* and T2 holds when that entry is also the first whose text ends with T2.
C2_SuffixEquationFirstEntry ==
  pc = "emitted" =>
    /\ \A h \in Handles :
         LET j == FirstSharing(strings[h].text) IN
           OffsetOf(h) = EntryOffset(j) + Len(entries[j].text) - Len(strings[h].text)
    /\ \A h1, h2 \in Handles :
         /\ EndsWith(strings[h2].text, strings[h1].text)
         /\ FirstSharing(strings[h1].text) = FirstSharing(strings[h2].text)
         => OffsetOf(h1) =
              OffsetOf(h2) + Len(strings[h2].text) - Len(strings[h1].text)

\* Two entries end with a registered text that is not an entry itself.
C2_Witness ==
  /\ pc = "emitted"
  /\ \E h \in Handles :
       /\ Cardinality(Sharing(entries, strings[h].text)) = 2
       /\ \A j \in 1..Len(entries) : entries[j].text # strings[h].text

Registered == {strings[h].text : h \in Handles}

ProperSuffix(t, u) == t # u /\ EndsWith(u, t)

\* C3: after layout_table the entries are exactly the distinct registered
\* texts that are not a proper suffix of another registered text; no entry's
\* text is a suffix of another entry's, and no text is an entry twice.
C3_MaximalEntries ==
  pc \in {"laid", "emitted"} =>
    /\ {entries[j].text : j \in 1..Len(entries)} =
         {t \in Registered : \A u \in Registered : ~ProperSuffix(t, u)}
    /\ \A j, k \in 1..Len(entries) :
         j # k => ~EndsWith(entries[k].text, entries[j].text)

\* A registered text is a proper suffix of another and there are two entries.
C3_Witness ==
  /\ pc = "laid"
  /\ Len(entries) = 2
  /\ \E t, u \in Registered : ProperSuffix(t, u)


\* ------------------------------------------------------------------------
\* The emitter on a toplevel: visit_toplevel, and for each function
\* visit_function, whose loop over the operations is taken one operation
\* at a time.  The functions and the operations are the input; they are
\* drawn when the emitter first reads them.
\* ------------------------------------------------------------------------

TextExample == <<101, 120, 97, 109, 112, 108, 101>>
TextEmpty == <<101, 109, 112, 116, 121>>
TextPle == <<112, 108, 101>>

\* A reference to the function example::f()i among the automatic parameters.
FuncRef ==
  [kind |-> "funcref", name |-> [provider |-> TextExample, name |-> <<102>>],
   paramtypes |-> <<>>, returntypes |-> <<105>>]

\* A reference to the symbol example::s.
SymRef ==
  [kind |-> "symbolref", name |-> [provider |-> TextExample, name |-> <<115>>],
   paramtypes |-> <<>>, returntypes |-> <<>>]

Signature(shortname, ident, userparams, autoparams, returntypes, max_stack) ==
  [provider |-> TextExample, shortname |-> shortname, ident |-> ident,
   userparams |-> userparams, autoparams |-> autoparams,
   returntypes |-> returntypes, max_stack |-> max_stack]

\* example::empty()
SigEmpty == Signature(TextEmpty, "example::empty()", <<>>, <<>>, <<>>, 0)

\* example::ple(i)ip with a function and a symbol among its parameters
SigAutos ==
  Signature(TextPle, "example::ple(i)ip", <<105>>, <<FuncRef, SymRef>>,
            <<105, 112>>, 2)

\* example::ple(p) with a symbol among its parameters
SigSymbol == Signature(TextPle, "example::ple(p)", <<112>>, <<SymRef>>, <<>>, 1)

Signatures == {SigEmpty, SigAutos, SigSymbol}

\* The orders in which the keys of a dict with the keys in set come.
Orders(set) ==
  {o \in [1..Cardinality(set) -> set] : \A i, j \in DOMAIN o : i # j => o[i] # o[j]}

\* The functions with one of the signatures sigs and a stream of at most
\* maxops operations.
Functions(sigs, maxops) ==
  {[provider |-> sig.provider, shortname |-> sig.shortname, ident |-> sig.ident,
    userparams |-> sig.userparams, autoparams |-> sig.autoparams,
    returntypes |-> sig.returntypes, max_stack |-> sig.max_stack,
    nops |-> n, labels |-> o] :
      sig \in sigs,
      n \in 0..maxops,
      o \in UNION {Orders(L) : L \in {M \in SUBSET (1..maxops) : Cardinality(M) <= MaxLabels}}}

RangeOf(seq) == {seq[i] : i \in DOMAIN seq}

OpDrop == Op("drop", "drop", 0, Zero, FALSE, 0)
OpName == Op("name", "", 0, Zero, FALSE, 0)
OpStop == Op("stop", "", 0, Zero, FALSE, 0)
OpBra(t) == Op("branch", "bra", t, Zero, FALSE, 0)
OpSkip(t) == Op("goto", "skip", t, Zero, FALSE, 0)
OpConst(n) == Op("const", "", 0, PyInt(n), FALSE, 0)
OpDeref(sized) == Op("deref", "deref", 0, Zero, sized, 0)
OpPick(slot, dwarfname) == Op("pick", dwarfname, 0, Zero, FALSE, slot)

\* The operations of a stream whose labelled operations are targets.
OpsSmall(targets) == {OpDrop, OpName} \cup {OpBra(t) : t \in targets}

\* The operations of a stream with at most MaxBranches branches, of which
\* sofar have been visited.
OpsBranch(targets, sofar) ==
  {OpDrop, OpName} \cup
    (IF Cardinality({i \in 1..Len(sofar) : sofar[i].target # 0}) < MaxBranches
       THEN {OpBra(t) : t \in targets} \cup {OpSkip(t) : t \in targets}
       ELSE {})

\* The dwarfname of a pick operation.
PickNames == {"pick", "dup"}

OpsAll(targets) ==
  {OpDrop, OpName, OpStop, OpConst(256), OpDeref(FALSE), OpDeref(TRUE)}
    \cup {OpPick(slot, n) : slot \in 0..2, n \in PickNames}
    \cup {OpBra(t) : t \in targets} \cup {OpSkip(t) : t \in targets}

TopInit ==
  /\ pc = "start"
  /\ EmInit(NewEmitter)
  /\ TabInit(NewStringTable)
  /\ FunInit

\* visit_toplevel, up to its loop
VisitToplevel ==
  /\ pc = "start"
  /\ \E E \in {ToplevelBegin(Em)} : SetEm(E)
  /\ pc' = "toplevel"
  /\ UNCHANGED <<tabvars, funvars>>

\* visit_function with the entries of the autos table of the function
\* before kept in the new one
VisitFunctionCarried(sigs, maxfuncs, maxops) ==
  /\ pc = "toplevel"
  /\ nfuncs < maxfuncs
  /\ \E f \in Functions(sigs, maxops - nops) :
       /\ RangeOf(f.labels) \subseteq 1..f.nops
       /\ \E B \in {FunctionBegin(Em, f)} :
            /\ SetEm(B.E)
            /\ SetTab(B.S)
            /\ autos' = autos \o B.A
            /\ labels' = B.labels
            /\ frame' = B.frame
       /\ function' = f
  /\ ops' = <<>>
  /\ oplines' = <<>>
  /\ pc' = "ops"
  /\ UNCHANGED <<nfuncs, nops, testvars>>

\* The loop of visit_toplevel reaches a function, and visit_function runs
\* up to the loop over its operations.
VisitFunction(sigs, maxfuncs, maxops) ==
  /\ pc = "toplevel"
  /\ nfuncs < maxfuncs
  /\ \E f \in Functions(sigs, maxops - nops) :
       /\ RangeOf(f.labels) \subseteq 1..f.nops
       /\ \E B \in {FunctionBegin(Em, f)} :
            /\ SetEm(B.E)
            /\ SetTab(B.S)
            /\ autos' = B.A
            /\ labels' = B.labels
            /\ frame' = B.frame
       /\ function' = f
  /\ ops' = <<>>
  /\ oplines' = <<>>
  /\ pc' = "ops"
  /\ UNCHANGED <<nfuncs, nops, testvars>>

\* One turn of the loop of visit_operationstream; the operation is one of
\* alphabet.
VisitOperation(alphabet) ==
  /\ pc = "ops"
  /\ Len(ops) < function.nops
  /\ \E op \in alphabet :
       /\ ops' = Append(ops, op)
       /\ IF DerefRaises(op)
            THEN /\ \E E \in {IF Len(ops) + 1 \in DOMAIN labels
                                THEN EmitLabel(Em, labels[Len(ops) + 1])
                                ELSE Em} : SetEm(E)
                 /\ pc' = "error"
            ELSE /\ \E E \in {VisitStreamOp(Em, labels, Len(ops) + 1, op)} :
                      SetEm(E)
                 /\ pc' = "ops"
  /\ oplines' = Append(oplines, [first |-> Len(output) + 1, last |-> Len(output')])
  /\ UNCHANGED <<tabvars, autos, function, labels, frame, nfuncs, nops, testvars>>

\* The loop of visit_operationstream ends; the rest of visit_function.
FunctionReturn ==
  /\ pc = "ops"
  /\ Len(ops) = function.nops
  /\ \E E \in {FunctionEnd(Em, Tab, autos, frame)} : SetEm(E)
  /\ nfuncs' = nfuncs + 1
  /\ nops' = nops + function.nops
  /\ pc' = "toplevel"
  /\ UNCHANGED <<tabvars, autos, function, labels, frame, ops, oplines, testvars>>

\* The loop of visit_toplevel ends.
ToplevelReturn ==
  /\ pc = "toplevel"
  /\ pc' = "done"
  /\ UNCHANGED <<emvars, tabvars, funvars>>

Init == TopInit

Next ==
  \/ VisitToplevel
  \/ VisitFunction(Signatures, MaxFunctions, MaxOps)
  \/ VisitOperation(OpsSmall(RangeOf(function.labels)))
  \/ FunctionReturn
  \/ ToplevelReturn

\* A toplevel of up to MaxFunctions functions.
Spec == Init /\ [][Next]_vars

StreamNext ==
  \/ VisitToplevel
  \/ VisitFunction({SigEmpty}, 1, MaxStreamOps)
  \/ VisitOperation(OpsAll(RangeOf(function.labels)))
  \/ FunctionReturn
  \/ ToplevelReturn

\* A toplevel of one function, with operations of every class.
SpecStream == Init /\ [][StreamNext]_vars

BranchNext ==
  \/ VisitToplevel
  \/ VisitFunction({SigEmpty}, 1, MaxBranchOps)
  \/ VisitOperation(OpsBranch(RangeOf(function.labels), ops))
  \/ FunctionReturn
  \/ ToplevelReturn

\* A toplevel of one function, with one-byte operations and branches.
SpecBranch == Init /\ [][BranchNext]_vars

\* ------------------------------------------------------------------------
\* Properties of the branches
\* ------------------------------------------------------------------------

\* visit_function has just returned for the function whose operations ops
\* holds.
FunctionDone == pc = "toplevel" /\ nfuncs > 0

IsBranch(op) == op.kind \in {"branch", "goto"}

\* The line of the 2-byte field of the branch at index i: the last line
\* written in its turn, the source label being left pending.
FieldLine(i) == oplines[i].last

\* The value the assembler gives the field of the branch at index i.
FieldValue(i) == Eval(output, FieldLine(i), output[FieldLine(i)].val)

\* The address of the first byte emitted at or after the operation at i.
OpAddr(i) == Addr(output, oplines[i].first)

\* C4: the 2-byte field of every branch and goto evaluates to the address
\* of the first byte emitted at or after its target operation minus the
\* address of the first byte after the field, whether the target is ahead,
\* behind, the branch itself, or an operation that emits no bytes.
C4_BranchOffset ==
  FunctionDone =>
    \A i \in 1..Len(ops) :
      IsBranch(ops[i]) =>
        /\ output[FieldLine(i)].dir = ".2byte"
        /\ output[FieldLine(i)].val.k = "expr"
        /\ Defined(output, FieldLine(i), output[FieldLine(i)].val)
        /\ FieldValue(i) = OpAddr(ops[i].target) - Addr(output, FieldLine(i) + 1)

\* A forward branch over three one-byte operations yields 3, to an operation
\* that emits no bytes.
C4_Witness ==
  /\ FunctionDone
  /\ Len(ops) = 5
  /\ IsBranch(ops[1]) /\ ops[1].target = 5
  /\ \A i \in 2..4 : ops[i].kind = "drop"
  /\ ops[5].kind = "name"
  /\ FieldValue(1) = 3

\* A backward branch to the operation before it, of one byte, yields -4, and
\* a branch to itself -3.
C4_WitnessBackward ==
  /\ FunctionDone
  /\ \E i \in 2..Len(ops) :
       /\ IsBranch(ops[i]) /\ ops[i].target = i - 1
       /\ ops[i - 1].kind = "drop"
       /\ FieldValue(i) = -4
  /\ \E i \in 1..Len(ops) :
       /\ IsBranch(ops[i]) /\ ops[i].target = i
       /\ FieldValue(i) = -3

\* ------------------------------------------------------------------------
\* Properties of the labels
\* ------------------------------------------------------------------------

\* The references to labels on a line
Refs(line) == {line.val.a, line.val.b} \ {NoRef}

\* The lines that define the label name
Defs(name) == {j \in 1..Len(output) : output[j].lab = name}

\* C5: at every point of the output, a reference rendered Nb is on or after
\* a line that defines N, and a reference rendered Nf is strictly before
\* every line that defines N, and before one once visit_toplevel has
\* returned.
C5_ReferenceDirection ==
  \A pos \in 1..Len(output) :
    \A ref \in Refs(output[pos]) :
      /\ ref.dir \in {"b", "f"}
      /\ ref.dir = "b" => \E j \in Defs(ref.name) : j <= pos
      /\ ref.dir = "f" => \A j \in Defs(ref.name) : j > pos
      /\ ref.dir = "f" /\ pc = "done" => Defs(ref.name) # {}

\* Two functions are written; a backward reference is on the line of its
\* label, a branch refers backward to an earlier line and the offset of a
\* string of the autos table refers forward.
C5_Witness ==
  /\ pc = "done"
  /\ nfuncs = 2
  /\ \E pos \in 1..Len(output) :
       \E ref \in Refs(output[pos]) : ref.dir = "b" /\ output[pos].lab = ref.name
  /\ \E pos \in 1..Len(output) :
       /\ output[pos].cmt = ""
       /\ output[pos].dir = ".2byte"
       /\ output[pos].val.a # NoRef
       /\ output[pos].val.a.dir = "b"
  /\ \E pos \in 1..Len(output) :
       /\ output[pos].cmt = "auto 0 name offset"
       /\ output[pos].val.a # NoRef
       /\ output[pos].val.a.dir = "f"

\* C6: the labels new_label has returned have names that differ from one
\* another, across the functions of a toplevel, and num_labels counts them.
C6_UniqueLabels ==
  /\ \A i, j \in 1..Len(objs) : i # j => objs[i].name # objs[j].name
  /\ num_labels = Len(objs)

\* The counter is never reset or decreased.
C6_CounterIncreases == [][num_labels' >= num_labels]_vars

\* Two functions have been visited and the second has labels of its own.
C6_Witness ==
  /\ pc = "done"
  /\ nfuncs = 2
  /\ frame.namestart > 8
  /\ labels # <<>>

\* The names of the labels referred to in the output
Referenced == UNION {{ref.name : ref \in Refs(output[pos])} : pos \in 1..Len(output)}

\* C7: when visit_toplevel has returned, every label referred to in the
\* output is defined on exactly one line, and no label is left pending.
C7_DefinedOnce ==
  pc = "done" =>
    /\ \A name \in Referenced : Cardinality(Defs(name)) = 1
    /\ label = NoLabel

\* A function was written in which a labelled operation that emits nothing
\* ends the stream, so that its label is written on a line of its own.
C7_Witness ==
  /\ pc = "done"
  /\ nfuncs > 0
  /\ Len(ops) > 0
  /\ Len(ops) \in DOMAIN labels
  /\ ops[Len(ops)].kind = "name"
  /\ \E j \in 1..Len(output) :
       /\ output[j].lab = objs[labels[Len(ops)]].name
       /\ output[j].dir = ""
  /\ Referenced # {}

\* ------------------------------------------------------------------------
\* visit_constop on its own: a new emitter visits constant operations.
\* ------------------------------------------------------------------------

\* The values tried: the small ones, and around every power of two.
ConstValues ==
  LET mags == {NatMag(n) : n \in 0..MaxSmall}
                \cup {Pow2Minus1Mag(e) : e \in 0..MaxExp}
                \cup {Pow2Mag(e) : e \in 0..MaxExp}
                \cup {Pow2Plus1Mag(e) : e \in 0..MaxExp}
  IN {[neg |-> FALSE, mag |-> m] : m \in mags}
       \cup {IntNeg([neg |-> FALSE, mag |-> m]) : m \in mags}

ConstInit ==
  /\ pc = "const"
  /\ EmInit(NewEmitter)
  /\ TabInit(NewStringTable)
  /\ FunInit

\* op.accept(emitter) for a constant operation
ConstVisit ==
  /\ pc = "const"
  /\ Len(ops) < MaxConsts
  /\ \E value \in ConstValues :
       /\ ops' = Append(ops, Op("const", "", 0, value, FALSE, 0))
       /\ \E E \in {VisitConstop(Em, Op("const", "", 0, value, FALSE, 0))} : SetEm(E)
  /\ oplines' = Append(oplines, [first |-> Len(output) + 1, last |-> Len(output')])
  /\ UNCHANGED <<pc, tabvars, autos, function, labels, frame, nfuncs, nops, testvars>>

ConstNext == ConstVisit

SpecConst == ConstInit /\ [][ConstNext]_vars

\* ------------------------------------------------------------------------
\* Properties of the bytecode
\* ------------------------------------------------------------------------

IsCode(line) == line.dir \notin {"", "#define"}

\* The lines of bytecode written in the turn of the operation at index i
CodeLines(i) ==
  SelectSeq(SubSeq(output, oplines[i].first, oplines[i].last), IsCode)

\* What the ladder of constant encodings gives for v: the opcode's name and
\* the directive of its operand, "" if it has none.
Ladder(v) ==
  IF ~v.neg
    THEN CASE IntLess(v, PyInt(32)) ->
                [name |-> "lit" \o ToString(PyNat(v)), dir |-> ""]
           [] ~IntLess(v, PyInt(32)) /\ IntLess(v, Shl1(8)) ->
                [name |-> "const1u", dir |-> ".byte"]
           [] ~IntLess(v, Shl1(8)) /\ IntLess(v, Shl1(16)) ->
                [name |-> "const2u", dir |-> ".2byte"]
           [] ~IntLess(v, Shl1(16)) /\ IntLess(v, Shl1(21)) ->
                [name |-> "constu", dir |-> ".uleb128"]
           [] ~IntLess(v, Shl1(21)) /\ IntLess(v, Shl1(32)) ->
                [name |-> "const4u", dir |-> ".4byte"]
           [] ~IntLess(v, Shl1(32)) /\ IntLess(v, Shl1(49)) ->
                [name |-> "constu", dir |-> ".uleb128"]
           [] ~IntLess(v, Shl1(49)) /\ IntLess(v, Shl1(64)) ->
                [name |-> "const8u", dir |-> ".8byte"]
           [] ~IntLess(v, Shl1(64)) ->
                [name |-> "constu", dir |-> ".uleb128"]
    ELSE CASE ~IntLess(v, IntNeg(Shl1(7))) ->
                [name |-> "const1s", dir |-> ".byte"]
           [] IntLess(v, IntNeg(Shl1(7))) /\ ~IntLess(v, IntNeg(Shl1(15))) ->
                [name |-> "const2s", dir |-> ".2byte"]
           [] IntLess(v, IntNeg(Shl1(15))) /\ ~IntLess(v, IntNeg(Shl1(20))) ->
                [name |-> "consts", dir |-> ".sleb128"]
           [] IntLess(v, IntNeg(Shl1(20))) /\ ~IntLess(v, IntNeg(Shl1(31))) ->
                [name |-> "const4s", dir |-> ".4byte"]
           [] IntLess(v, IntNeg(Shl1(31))) /\ ~IntLess(v, IntNeg(Shl1(48))) ->
                [name |-> "consts", dir |-> ".sleb128"]
           [] IntLess(v, IntNeg(Shl1(48))) /\ ~IntLess(v, IntNeg(Shl1(63))) ->
                [name |-> "const8s", dir |-> ".8byte"]
           [] IntLess(v, IntNeg(Shl1(63))) ->
                [name |-> "consts", dir |-> ".sleb128"]

\* The boundaries the ladder is stated with
Boundaries ==
  {<<31, "lit31">>, <<32, "const1u">>, <<255, "const1u">>, <<256, "const2u">>,
   <<-1, "const1s">>, <<-128, "const1s">>, <<-129, "const2s">>}

\* C8: for a constant v, visit_constop writes one opcode, the one the
\* ladder gives for v, and after it the operand v with the ladder's
\* directive, or nothing for lit<v>; the only other line it may write is
\* the #define of the opcode.
C8_ConstantLadder ==
  \A i \in 1..Len(ops) :
    ops[i].kind = "const" =>
      LET code == CodeLines(i)
          want == Ladder(ops[i].value)
      IN /\ Len(code) = IF want.dir = "" THEN 1 ELSE 2
         /\ code[1] = Line("", ".byte", SymV("DW_OP_" \o want.name), "fileline")
         /\ want.dir # "" => code[2] = Line("", want.dir, IntV(ops[i].value), "")
         /\ \A j \in oplines[i].first..oplines[i].last :
              ~IsCode(output[j]) =>
                /\ output[j].dir = "#define"
                /\ output[j].val.s = "DW_OP_" \o want.name
         /\ \A b \in Boundaries :
              ops[i].value = PyInt(b[1]) => code[1].val.s = "DW_OP_" \o b[2]

\* The constant -(1 << 48) was written, as consts and an .sleb128.
C8_Witness ==
  /\ Len(ops) = 1
  /\ ops[1].value = IntNeg(Shl1(48))
  /\ Len(CodeLines(1)) = 2
  /\ CodeLines(1)[2].dir = ".sleb128"

\* The bytes of the encoding written for the constant at index i: one for
\* the opcode and those of its operand.
EncodedSize(i) ==
  1 + (IF Len(CodeLines(i)) > 1 THEN Len(LineBytes(CodeLines(i)[2], 0)) ELSE 0)

\* The sizes of the encodings of the ladder of v's sign that can hold v.
Alternatives(v) ==
  IF ~v.neg
    THEN (IF IntLess(v, PyInt(32)) THEN {1} ELSE {})
           \cup (IF IntLess(v, Shl1(8)) THEN {2} ELSE {})
           \cup (IF IntLess(v, Shl1(16)) THEN {3} ELSE {})
           \cup (IF IntLess(v, Shl1(32)) THEN {5} ELSE {})
           \cup (IF IntLess(v, Shl1(64)) THEN {9} ELSE {})
           \cup {1 + UlebLen(v)}
    ELSE (IF IntGeq(v, IntNeg(Shl1(7))) THEN {2} ELSE {})
           \cup (IF IntGeq(v, IntNeg(Shl1(15))) THEN {3} ELSE {})
           \cup (IF IntGeq(v, IntNeg(Shl1(31))) THEN {5} ELSE {})
           \cup (IF IntGeq(v, IntNeg(Shl1(63))) THEN {9} ELSE {})
           \cup {1 + SlebLen(v)}

\* C9: the encoding visit_constop writes for a constant v is no longer, the
\* opcode's byte and the operand's bytes together, than any encoding of the
\* ladder of v's sign that can hold v.
C9_ShortestEncoding ==
  \A i \in 1..Len(ops) :
    ops[i].kind = "const" =>
      \A size \in Alternatives(ops[i].value) : EncodedSize(i) <= size

\* The constant (1 << 16) + 1 was written in four bytes, where const4u
\* takes five.
C9_Witness ==
  /\ Len(ops) = 1
  /\ ops[1].value = [neg |-> FALSE, mag |-> Pow2Plus1Mag(16)]
  /\ EncodedSize(1) = 4
  /\ 5 \in Alternatives(ops[1].value)

\* C10 as stated: a pick operation is written as DW_OP_dup alone when its
\* slot is 0, as DW_OP_over alone when it is 1, and otherwise as DW_OP_pick
\* and a .byte that holds the slot, whatever its dwarfname is.
C10_PickLowering ==
  \A i \in 1..Len(ops) :
    ops[i].kind = "pick" =>
      LET code == CodeLines(i) IN
        /\ Len(code) = IF ops[i].slot \in {0, 1} THEN 1 ELSE 2
        /\ code[1].dir = ".byte"
        /\ code[1].val =
             SymV(CASE ops[i].slot = 0 -> "DW_OP_dup"
                    [] ops[i].slot = 1 -> "DW_OP_over"
                    [] OTHER -> "DW_OP_pick")
        /\ Len(code) = 2 =>
             /\ code[2].dir = ".byte"
             /\ code[2].val = IntV(PyInt(ops[i].slot))

\* ------------------------------------------------------------------------
\* Properties of the opcode definitions
\* ------------------------------------------------------------------------

\* The lines that are a .byte of the symbol name
Uses(name) ==
  {j \in 1..Len(output) :
     output[j].dir = ".byte" /\ output[j].val.k = "sym" /\ output[j].val.s = name}

\* The lines that are a #define of name
Defines(name) ==
  {j \in 1..Len(output) : output[j].dir = "#define" /\ output[j].val.s = name}

\* The symbols written in a .byte
UsedNames ==
  {output[j].val.s : j \in {k \in 1..Len(output) :
                              output[k].dir = ".byte" /\ output[k].val.k = "sym"}}

\* C11: in the output of one emitter, across the functions of a toplevel,
\* every DW_OP_ name written in a .byte has exactly one #define line, and
\* that line comes before every .byte that uses the name.
C11_DefineOnce ==
  \A name \in UsedNames :
    /\ Cardinality(Defines(name)) = 1
    /\ \A d \in Defines(name) : \A u \in Uses(name) : d < u

\* Two functions are written and both use DW_OP_drop.
C11_Witness ==
  /\ pc = "done"
  /\ nfuncs = 2
  /\ Cardinality(Uses("DW_OP_drop")) = 2
  /\ \E j \in Uses("DW_OP_drop") : output[j - 1].dir # "#define"

\* ------------------------------------------------------------------------
\* Properties of the blocks of a function's note
\* ------------------------------------------------------------------------

\* The line on which the label l is defined, once it is written.
LabelLine(l) == CHOOSE j \in Defs(objs[l].name) : TRUE

IsData(line) == line.dir # ""

\* The lines from the autosstart label up to the start label of the strings
AutosBlock ==
  SelectSeq(SubSeq(output, LabelLine(frame.autosstart),
                   LabelLine(StartLabel(Tab)) - 1), IsData)

\* The bytes between the two labels
AutosBytes ==
  Addr(output, LabelLine(StartLabel(Tab))) - Addr(output, LabelLine(frame.autosstart))

\* The directives of the records of the automatic parameters from the
\* i-th on: two offsets and two more for a function, two offsets and four
\* bytes for a symbol.
RECURSIVE RecordDirs(_, _)
RecordDirs(params, i) ==
  IF i > Len(params) THEN <<>>
  ELSE (IF params[i].kind = "funcref"
          THEN <<".2byte", ".2byte", ".2byte", ".2byte">>
          ELSE <<".2byte", ".2byte", ".4byte">>) \o RecordDirs(params, i + 1)

\* The texts the offsets of those records stand for
RECURSIVE RecordTexts(_, _)
RecordTexts(params, i) ==
  IF i > Len(params) THEN <<>>
  ELSE (IF params[i].kind = "funcref"
          THEN <<params[i].name.provider, params[i].name.name,
                 params[i].paramtypes, params[i].returntypes>>
          ELSE <<params[i].name.provider, params[i].name.name, <<>>>>)
       \o RecordTexts(params, i + 1)

\* The NUL-terminated text at the offset a line holds, from the start label
\* of the strings.
TextAt(line) ==
  CString(Image(output, Len(output)),
          Addr(output, LabelLine(StartLabel(Tab))) + Eval(output, 0, line.val))

\* C12: for each automatic parameter, in order, AutosTable.emit writes 8
\* bytes: the offsets of its provider and its name in two bytes each, then
\* four bytes of zero for a symbol or the offsets of args and rets in two
\* bytes each for a function, also when args or rets is the empty text.
C12_AutosRecords ==
  FunctionDone =>
    /\ [j \in 1..Len(AutosBlock) |-> AutosBlock[j].dir] =
         RecordDirs(function.autoparams, 1)
    /\ AutosBytes = 8 * Len(function.autoparams)
    /\ \A j \in 1..Len(AutosBlock) :
         IF AutosBlock[j].dir = ".4byte"
           THEN AutosBlock[j].val = IntV(Zero)
           ELSE /\ AutosBlock[j].val.k = "expr"
                /\ TextAt(AutosBlock[j]) = RecordTexts(function.autoparams, 1)[j]

\* A function with a function, whose args is the empty text, and a symbol
\* among its parameters is written: 16 bytes.
C12_Witness ==
  /\ FunctionDone
  /\ function.autoparams = <<FuncRef, SymRef>>
  /\ FuncRef.paramtypes = <<>>
  /\ AutosBytes = 16
  /\ Len(AutosBlock) = 7

\* A function has been populated: its tables are those of the state.
Populated == function # NoFunction

\* C13: once a function's tables are populated, the text of autoptypes has
\* one character for each entry of the autos table, in the order of the
\* entries: "f" (102) where the entry has args and rets, which is where the
\* parameter is a function, and "s" (115) where it has none.
C13_AutoptypesMatch ==
  Populated =>
    /\ Len(strings[Autoptypes].text) = Len(autos)
    /\ Len(autos) = Len(function.autoparams)
    /\ \A i \in 1..Len(autos) :
         /\ strings[Autoptypes].text[i] = 102 <=> autos[i].args # NoString
         /\ strings[Autoptypes].text[i] = 115 <=> autos[i].args = NoString
         /\ autos[i].args # NoString <=> autos[i].rets # NoString
         /\ autos[i].args # NoString <=> function.autoparams[i].kind = "funcref"

\* A function with a function and then a symbol among its parameters has
\* been populated: autoptypes reads "fs".
C13_Witness ==
  /\ pc = "ops"
  /\ function.autoparams = <<FuncRef, SymRef>>
  /\ strings[Autoptypes].text = <<102, 115>>

\* The line of the function header with the comment cmt: the only such line
\* from the headerstart label on.
HeaderLine(cmt) ==
  CHOOSE j \in LabelLine(frame.headerstart)..Len(output) : output[j].cmt = cmt

\* The value the assembler gives the field of the header with comment cmt
HeaderField(cmt) == Eval(output, HeaderLine(cmt), output[HeaderLine(cmt)].val)

\* The lines from the headerstart label up to the codestart label, but for
\* the #define of the first operation's opcode, which is written before the
\* line that carries the codestart label.
HeaderBlock ==
  SelectSeq(SubSeq(output, LabelLine(frame.headerstart),
                   LabelLine(frame.codestart) - 1), IsCode)

\* C14 as stated: the header size field evaluates to 20, ten 2-byte fields
\* lying between the headerstart label and the codestart label.
C14_HeaderSize20 ==
  FunctionDone =>
    /\ HeaderField("header size") = 20
    /\ Len(HeaderBlock) = 10

\* C14 amended: the header size field is the first line from the
\* headerstart label and evaluates to 18, the nine 2-byte fields header
\* size, code size, autos size, five offsets of strings and max stack lying
\* between the headerstart label and the codestart label.
C14_HeaderSize18 ==
  FunctionDone =>
    /\ HeaderLine("header size") = LabelLine(frame.headerstart)
    /\ output[HeaderLine("header size")].dir = ".2byte"
    /\ HeaderField("header size") = 18
    /\ HeaderField("header size") =
         Addr(output, LabelLine(frame.codestart))
           - Addr(output, LabelLine(frame.headerstart))
    /\ [j \in 1..Len(HeaderBlock) |-> <<HeaderBlock[j].dir, HeaderBlock[j].cmt>>] =
         <<<<".2byte", "header size">>, <<".2byte", "code size">>,
           <<".2byte", "autos size">>, <<".2byte", "provider offset">>,
           <<".2byte", "name offset">>, <<".2byte", "param types offset">>,
           <<".2byte", "return types offset">>, <<".2byte", "autos types offset">>,
           <<".2byte", "max stack">>>>

\* The second function of a toplevel is written, with operations and
\* automatic parameters.
C14_Witness ==
  /\ FunctionDone
  /\ nfuncs = 2
  /\ Len(ops) > 0
  /\ Len(autos) > 0
  /\ HeaderField("header size") = 18

\* The bytes of an operation that is not a constant, a deref or a pick: one
\* for its opcode, two more for the field of a branch, none for name and
\* stop.
OpBytes(op) ==
  CASE op.kind \in {"name", "stop"} -> 0
    [] op.kind \in {"branch", "goto"} -> 3
    [] OTHER -> 1

RECURSIVE StreamBytes(_, _)
StreamBytes(stream, i) ==
  IF i > Len(stream) THEN 0 ELSE OpBytes(stream[i]) + StreamBytes(stream, i + 1)

\* C15: the code size field evaluates to the number of bytes written for
\* the operations of the stream and the autos size field to 8 times the
\* number of entries of the autos table; the labels headerstart, codestart,
\* autosstart and the start label of the strings are defined in this order,
\* each at the first byte of its block.
C15_SizeFields ==
  FunctionDone =>
    /\ HeaderField("code size") = StreamBytes(ops, 1)
    /\ HeaderField("code size") =
         Addr(output, LabelLine(frame.autosstart))
           - Addr(output, LabelLine(frame.codestart))
    /\ Len(ops) > 0 =>
         /\ Addr(output, LabelLine(frame.codestart)) = OpAddr(1)
         /\ Addr(output, LabelLine(frame.autosstart)) =
              Addr(output, oplines[Len(ops)].last + 1)
    /\ HeaderField("autos size") = 8 * Len(autos)
    /\ HeaderField("autos size") = AutosBytes
    /\ LabelLine(frame.headerstart) < LabelLine(frame.codestart)
    /\ LabelLine(frame.codestart) < LabelLine(frame.autosstart)
    /\ LabelLine(frame.autosstart) < LabelLine(StartLabel(Tab))

\* A function is written whose stream is a name and a branch to it, with
\* two automatic parameters: 3 bytes of code and 16 of autos.
C15_Witness ==
  /\ FunctionDone
  /\ Len(ops) = 2
  /\ ops[1].kind = "name"
  /\ ops[2].kind = "branch"
  /\ Len(autos) = 2
  /\ HeaderField("code size") = 3
  /\ HeaderField("autos size") = 16

\* The line of the note of the last function visited that is k lines after
\* the line with the namestart label
NoteLine(k) == LabelLine(frame.namestart) + k

\* The value the assembler gives the operand of line j
ValueAt(j) == Eval(output, j, output[j].val)

\* The padding the last line of the output assembles to
TrailingPadding == Len(LineBytes(output[Len(output)], Addr(output, Len(output))))

\* C16: the note of a function is a blank line, the identifier comment,
\* the 4-byte namesz, descsz and NT_GNU_INFINITY, the name "GNU" with the
\* namestart label, a .balign 4 with the namelimit label, the descriptor
\* with the descstart label on its first line, and a last .balign 4 with
\* the desclimit label; namesz evaluates to 4 and descsz to the bytes of
\* the descriptor without the padding of the last .balign.
C16_FramingOrder ==
  FunctionDone =>
    /\ ValueAt(NoteLine(-3)) = 4
    /\ ValueAt(NoteLine(-2)) =
         Addr(output, Len(output)) - Addr(output, NoteLine(2))
    /\ ValueAt(NoteLine(-2)) =
         4 + HeaderField("header size") + HeaderField("code size")
           + HeaderField("autos size") + Len(PoolOf(entries, 1))
    /\ output[NoteLine(-5)] = Line("", "", NoV, "")
    /\ output[NoteLine(-4)] = Line("", "", NoV, function.ident)
    /\ output[NoteLine(-3)] =
         Line("", ".4byte",
              DiffV([name |-> objs[frame.namelimit].name, dir |-> "f"],
                    [name |-> objs[frame.namestart].name, dir |-> "f"]),
              "namesz")
    /\ output[NoteLine(-2)] =
         Line("", ".4byte",
              DiffV([name |-> objs[frame.desclimit].name, dir |-> "f"],
                    [name |-> objs[frame.descstart].name, dir |-> "f"]),
              "descsz")
    /\ output[NoteLine(-1)] = Line("", ".4byte", SymV("NT_GNU_INFINITY"), "")
    /\ output[NoteLine(0)] =
         Line(objs[frame.namestart].name, ".string", TextV(TextGNU), "")
    /\ output[NoteLine(1)] =
         Line(objs[frame.namelimit].name, ".balign", IntV(PyInt(4)), "")
    /\ output[NoteLine(2)] =
         Line(objs[frame.descstart].name, ".2byte",
              SymV("ELF_NOTE_I8_FUNCTION"), "")
    /\ LabelLine(frame.desclimit) = Len(output)
    /\ output[Len(output)] =
         Line(objs[frame.desclimit].name, ".balign", IntV(PyInt(4)), "")
    /\ \A j \in NoteLine(2)..(Len(output) - 1) : output[j].dir # ".balign"

\* A second function is written whose descriptor does not end on a
\* multiple of 4, so that the last .balign pads and descsz leaves the
\* padding out.
C16_Witness ==
  /\ FunctionDone
  /\ nfuncs = 2
  /\ TrailingPadding > 0
  /\ ValueAt(NoteLine(-3)) = 4
  /\ ValueAt(NoteLine(-2)) % 4 # 0

\* ------------------------------------------------------------------------
\* A StringTable used after layout_table: new and layout_table are called
\* in any order, and each of them fails its assertion when is_laid_out.
\* ------------------------------------------------------------------------

FreezeInit ==
  /\ pc = "fresh"
  /\ EmInit(NewEmitter)
  /\ TabInit(NewStringTable)
  /\ FunInit

\* table.new(text): AssertionError if the table is laid out
FreezeNew ==
  /\ pc \in {"fresh", "laid"}
  /\ IF IsLaidOut(Tab)
       THEN /\ pc' = "new failed"
            /\ UNCHANGED tabvars
       ELSE /\ Len(strings) < MaxStrings
            /\ \E text \in Texts : SetTab(StringTableNew(Tab, text))
            /\ UNCHANGED pc
  /\ UNCHANGED <<emvars, funvars>>

\* table.layout_table(emitter.new_label): AssertionError if the table is
\* laid out
FreezeLayout ==
  /\ pc \in {"fresh", "laid"}
  /\ IF IsLaidOut(Tab)
       THEN /\ pc' = "layout failed"
            /\ UNCHANGED <<emvars, tabvars>>
       ELSE /\ \E R \in {LayoutTable(Em, Tab)} : SetEm(R.E) /\ SetTab(R.S)
            /\ pc' = "laid"
  /\ UNCHANGED funvars

FreezeNext == FreezeNew \/ FreezeLayout

SpecFreeze == FreezeInit /\ [][FreezeNext]_vars

\* C17: once layout_table has returned, the table is laid out, and a call
\* of new or of layout_table fails and leaves the table as it was.
C17_LayoutFreezes ==
  [][pc = "laid" =>
       /\ IsLaidOut(Tab)
       /\ pc' \in {"new failed", "layout failed"}
       /\ UNCHANGED tabvars]_vars

\* ------------------------------------------------------------------------
\* Properties of visit_derefop
\* ------------------------------------------------------------------------

\* The lines written by the step
NewLines == SubSeq(output', Len(output) + 1, Len(output'))

\* C18: a deref whose type has a sized type raises before anything is
\* written for it: the turn of the loop writes no directive (at most the
\* line of a label that was pending), leaves the opcodes to define as they
\* were and the pending label as the loop set it, and ends the run, after
\* which nothing is written; a deref without a sized type writes one
\* .byte DW_OP_deref.
C18_SizedDerefRaises ==
  [][/\ pc # "error"
     /\ (pc = "ops" /\ Len(ops') = Len(ops) + 1 /\ ops'[Len(ops')].kind = "deref") =>
          IF ops'[Len(ops')].sized
            THEN /\ pc' = "error"
                 /\ opcodes' = opcodes
                 /\ \A j \in 1..Len(NewLines) :
                      NewLines[j].dir = "" /\ NewLines[j].lab # ""
                 /\ Len(NewLines) <= 1
                 /\ label' = IF Len(ops') \in DOMAIN labels
                               THEN labels[Len(ops')]
                               ELSE label
            ELSE /\ pc' = "ops"
                 /\ Len(SelectSeq(NewLines, IsCode)) = 1
                 /\ SelectSeq(NewLines, IsCode)[1].dir = ".byte"
                 /\ SelectSeq(NewLines, IsCode)[1].val = SymV("DW_OP_deref")
                 /\ opcodes' = opcodes \ {"DW_OP_deref"}]_vars

\* The run has ended at a deref with a sized type that has a label, after
\* another operation, with DW_OP_deref not yet defined.
C18_Witness ==
  /\ pc = "error"
  /\ Len(ops) >= 2
  /\ ops[Len(ops)].kind = "deref"
  /\ ops[Len(ops)].sized
  /\ Len(ops) \in DOMAIN labels
  /\ label = labels[Len(ops)]
  /\ "DW_OP_deref" \in opcodes

\* ------------------------------------------------------------------------
\* emit_op on its own: an emitter is given names, one of which the table
\* of i8c.dwarf2 does not have.
\* ------------------------------------------------------------------------

OpNames == {"drop", "dup", "deref", "bogus"}

OpInit ==
  /\ pc = "emit_op"
  /\ EmInit(NewEmitter)
  /\ TabInit(NewStringTable)
  /\ FunInit

\* emitter.emit_op(name, "fileline")
CallEmitOp ==
  /\ pc = "emit_op"
  /\ nops < MaxEmitOps
  /\ \E name \in OpNames : \E E \in {EmitOp(Em, name, "fileline")} : SetEm(E)
  /\ nops' = nops + 1
  /\ UNCHANGED <<pc, tabvars, autos, function, labels, frame, ops, oplines, nfuncs, testvars>>

OpNext == CallEmitOp

SpecOp == OpInit /\ [][OpNext]_vars

\* C19: emit_op does not write a .byte whose symbol the table of opcodes
\* does not have: the symbol of every .byte written is a name of the
\* table, defined on a line before it.
C19_UnknownOpcodeFails ==
  \A j \in 1..Len(output) :
    output[j].dir = ".byte" =>
      /\ output[j].val.s \in Dwarf2Names
      /\ \E k \in 1..(j - 1) :
           output[k].dir = "#define" /\ output[k].val.s = output[j].val.s

\* ------------------------------------------------------------------------
\* An AutosTable on its own, with the StringTable it shares: references
\* are visited, the string table is laid out and the autos table is
\* emitted, in any order.
\* ------------------------------------------------------------------------

\* A reference to the function p::g(i).
FuncRefG ==
  [kind |-> "funcref", name |-> [provider |-> <<112>>, name |-> <<103>>],
   paramtypes |-> <<105>>, returntypes |-> <<>>]

\* A reference to the symbol p::t.
SymRefT ==
  [kind |-> "symbolref", name |-> [provider |-> <<112>>, name |-> <<116>>],
   paramtypes |-> <<>>, returntypes |-> <<>>]

AutoRefs == {FuncRef, SymRef, FuncRefG, SymRefT}

AutosInit ==
  /\ pc = "autos"
  /\ EmInit(NewEmitter)
  /\ TabInit(NewStringTable)
  /\ FunInit

\* ref.accept(autos): add_entry asks the string table for new Strings,
\* and the first new fails if the table is laid out.
AutosVisit ==
  /\ pc = "autos"
  /\ IF IsLaidOut(Tab)
       THEN /\ pc' = "new failed"
            /\ UNCHANGED <<tabvars, autos>>
       ELSE /\ Len(autos) < MaxAutos
            /\ \E ref \in AutoRefs :
                 \E T \in {IF ref.kind = "funcref"
                             THEN AutosVisitFuncref([S |-> Tab, A |-> autos], ref)
                             ELSE AutosVisitSymbolref([S |-> Tab, A |-> autos], ref)} :
                   SetTab(T.S) /\ autos' = T.A
            /\ UNCHANGED pc
  /\ UNCHANGED <<emvars, function, labels, frame, ops, oplines, nfuncs, nops, testvars>>

\* strings.layout_table(emitter.new_label)
AutosLayout ==
  /\ pc = "autos"
  /\ IF IsLaidOut(Tab)
       THEN /\ pc' = "layout failed"
            /\ UNCHANGED <<emvars, tabvars>>
       ELSE /\ \E R \in {LayoutTable(Em, Tab)} : SetEm(R.E) /\ SetTab(R.S)
            /\ UNCHANGED pc
  /\ UNCHANGED funvars

\* autos.emit(emitter)
AutosTableEmit ==
  /\ pc = "autos"
  /\ \E R \in {AutosEmitChecked(Em, Tab, autos, 1)} :
       /\ SetEm(R.E)
       /\ pc' = IF R.failed THEN "emit failed" ELSE "emitted"
  /\ UNCHANGED <<tabvars, funvars>>

AutosNext == AutosVisit \/ AutosLayout \/ AutosTableEmit

SpecAutos == AutosInit /\ [][AutosNext]_vars

\* The lines AutosTable.emit writes for the entries A
RECURSIVE AutosLines(_, _)
AutosLines(A, j) ==
  IF j > Len(A) THEN 0
  ELSE (IF A[j].args = NoString THEN 3 ELSE 4) + AutosLines(A, j + 1)

\* C20: emit on an autos table with an entry, before the string table is
\* laid out, fails and writes no line; otherwise it writes the lines of
\* every entry.
C20_EmitNeedsOffsets ==
  [][(pc = "autos" /\ pc' \in {"emitted", "emit failed"}) =>
       IF Len(autos) >= 1 /\ ~IsLaidOut(Tab)
         THEN pc' = "emit failed" /\ output' = output
         ELSE pc' = "emitted" /\ Len(output') = Len(output) + AutosLines(autos, 1)]_vars

\* emit has failed on a table with a function and a symbol that was not
\* laid out, and nothing was written.
C20_Witness ==
  /\ pc = "emit failed"
  /\ Len(autos) >= 2
  /\ autos[1].args # NoString
  /\ autos[2].args = NoString
  /\ ~IsLaidOut(Tab)
  /\ output = <<>>

\* ------------------------------------------------------------------------
\* Properties of visit_toplevel
\* ------------------------------------------------------------------------

\* The five lines visit_toplevel writes before its loop
Preamble ==
  <<Line("", "#define", DefV("NT_GNU_INFINITY", 5), ""),
    Line("", "#define", DefV("ELF_NOTE_I8_FUNCTION", 1), ""),
    Line("", "", NoV, ""),
    Line("", ".section", SymV(".note.infinity, \"\", \"note\""), ""),
    Line("", ".balign", IntV(PyInt(4)), "")>>

\* The line is the comment with the identifier of a function
IsIdent(line) == line.dir = "" /\ line.cmt # ""

\* The step is visit_function up to the loop over the operations
StepsIntoFunction == pc = "toplevel" /\ pc' = "ops"

\* C21: visit_toplevel writes the two #defines, a blank line, the section
\* directive and .balign 4 first and once; every later step only adds
\* lines; the identifier comments come in the order in which the loop
\* reaches the functions, each at the head of its note, and between the
\* head of a note and its last line, the .balign 4 with the desclimit
\* label, the function visited does not change.
C21_PreambleAndOrder ==
  [][IF pc = "start"
       THEN output = <<>> /\ output' = Preamble
       ELSE /\ SubSeq(output, 1, 5) = Preamble
            /\ SubSeq(output', 1, Len(output)) = output
            /\ \A j \in (Len(output) + 1)..Len(output') :
                 /\ output'[j].dir # ".section"
                 /\ output'[j].dir = "#define" =>
                      output'[j].val.s \notin {"NT_GNU_INFINITY", "ELF_NOTE_I8_FUNCTION"}
                 /\ (output'[j].dir = ".balign" /\ output'[j].lab = "") => FALSE
            /\ SelectSeq(output', IsIdent) =
                 IF StepsIntoFunction
                   THEN Append(SelectSeq(output, IsIdent),
                               Line("", "", NoV, function'.ident))
                   ELSE SelectSeq(output, IsIdent)
            /\ StepsIntoFunction =>
                 /\ output'[Len(output) + 1] = Line("", "", NoV, "")
                 /\ output'[Len(output) + 2] = Line("", "", NoV, function'.ident)
            /\ pc = "ops" => function' = function
            /\ (pc = "ops" /\ pc' = "toplevel") =>
                 output'[Len(output')] =
                   Line(objs[frame.desclimit].name, ".balign", IntV(PyInt(4)), "")]_vars

\* Two functions with different identifiers have been written, one after
\* the other, after the preamble.
C21_Witness ==
  /\ pc = "done"
  /\ nfuncs = 2
  /\ SubSeq(output, 1, 5) = Preamble
  /\ SelectSeq(output, IsIdent) =
       <<Line("", "", NoV, "example::ple(i)ip"), Line("", "", NoV, "example::empty()")>>

\* ------------------------------------------------------------------------
\* Properties of the order of the string pool
\* ------------------------------------------------------------------------

\* The Strings and the entries are those of example::empty().
IsExampleEmpty ==
  /\ Len(strings) = 5
  /\ strings[Provider].text = TextExample
  /\ strings[Name].text = TextEmpty
  /\ \A h \in {Userptypes, Autoptypes, Returntypes} : strings[h].text = <<>>

\* C22: the entries of a function's string pool come by decreasing length,
\* those of one length in ascending order; the offset of a String whose
\* text is the k-th entry is the sum of len + 1 over the entries before
\* it; for example::empty(), "example" is at 0, "empty" at 8 and the three
\* empty strings at 7.
C22_EntryOrder ==
  FunctionDone =>
    /\ \A j, k \in 1..Len(entries) :
         j < k =>
           \/ Len(entries[j].text) > Len(entries[k].text)
           \/ /\ Len(entries[j].text) = Len(entries[k].text)
              /\ TextLess(entries[j].text, entries[k].text)
    /\ \A k \in 1..Len(entries), h \in Handles :
         strings[h].text = entries[k].text => OffsetOf(h) = EntryOffset(k)
    /\ IsExampleEmpty =>
         /\ OffsetOf(Provider) = 0
         /\ OffsetOf(Name) = 8
         /\ \A h \in {Userptypes, Autoptypes, Returntypes} : OffsetOf(h) = 7
         /\ HeaderField("provider offset") = 0
         /\ HeaderField("name offset") = 8
         /\ HeaderField("param types offset") = 7
         /\ HeaderField("return types offset") = 7
         /\ HeaderField("autos types offset") = 7

\* example::ple(i)ip is written after example::empty(): its pool is
\* "example", "fs", "ip", "f", "i", with two pairs of entries of one
\* length, and "ip" is at offset 11.
C22_Witness ==
  /\ FunctionDone
  /\ nfuncs = 2
  /\ Len(entries) = 5
  /\ entries[1].text = TextExample
  /\ entries[2].text = <<102, 115>>
  /\ entries[3].text = <<105, 112>>
  /\ entries[4].text = <<102>>
  /\ entries[5].text = <<105>>
  /\ OffsetOf(Returntypes) = 11

\* example::empty() is written: its pool is "example", "empty".
C22_WitnessExample ==
  /\ FunctionDone
  /\ IsExampleEmpty
  /\ Len(entries) = 2
  /\ HeaderField("name offset") = 8

\* ------------------------------------------------------------------------
\* __visit_function statement by statement, for a function without
\* operations: the tables are populated, laid out, read and emitted.
\* ------------------------------------------------------------------------

\* The parts of __visit_function with the string table laid out before
\* the parameters are visited
AfterLayoutFirst(part) ==
  CASE part = "begin" -> "layout"
    [] part = "layout" -> "populate"
    [] part = "populate" -> "header"
    [] part = "header" -> "end"
    [] part = "end" -> "done"

\* The part of __visit_function that follows part: the five calls of
\* strings.new ("begin"), the visits of the parameters and of the return
\* types ("populate"), layout_table ("layout"), the note header and the
\* function header ("header"), and the code, the autos and the strings
\* ("end").
After(part) ==
  CASE part = "begin" -> "populate"
    [] part = "populate" -> "layout"
    [] part = "layout" -> "header"
    [] part = "header" -> "end"
    [] part = "end" -> "done"

\* The encodings "i" and "p"
Encodings == {105, 112}

EncodingSeqs == UNION {[1..n -> Encodings] : n \in 0..MaxParams}

\* The functions example::ple with up to MaxParams parameters of each kind
\* and no operations
TableFunctions ==
  {[provider |-> TextExample, shortname |-> TextPle, ident |-> "example::ple",
    userparams |-> u, autoparams |-> a, returntypes |-> r, max_stack |-> 0,
    nops |-> 0, labels |-> <<>>] :
   u \in EncodingSeqs,
   a \in UNION {[1..n -> {FuncRef, SymRef}] : n \in 0..MaxParams},
   r \in EncodingSeqs}

\* How many of the user parameters, automatic parameters and return types
\* have been visited: each visit appends one character to its String.
Visited(h) == Len(strings[h].text)

\* visit_toplevel and visit_function up to __visit_function, then
\* __visit_function up to "Populate the tables" and its five strings.new
TablesBegin ==
  /\ pc = "start"
  /\ \E f \in TableFunctions :
       /\ function' = f
       /\ \E E \in {NewLabel(NewLabel(NewLabel(NoteBegin(ToplevelBegin(Em), f))))} :
            SetEm(E)
       /\ SetTab(StringTableNew(StringTableNew(StringTableNew(
                   StringTableNew(StringTableNew(NewStringTable, f.provider),
                                  f.shortname),
                   <<>>), <<>>), <<>>))
  /\ frame' = Frame(Len(objs))
  /\ autos' = <<>>
  /\ pc' = After("begin")
  /\ UNCHANGED <<labels, ops, oplines, nfuncs, nops, testvars>>

\* visit_parameter for the next user parameter
TablesParameter ==
  /\ pc = "populate"
  /\ Visited(Userptypes) < Len(function.userparams)
  /\ \E T \in {VisitParameter([S |-> Tab, A |-> autos],
                              function.userparams[Visited(Userptypes) + 1])} :
       SetTab(T.S) /\ autos' = T.A
  /\ UNCHANGED <<pc, emvars, function, labels, frame, ops, oplines, nfuncs, nops, testvars>>

\* visit_funcref or visit_symbolref for the next automatic parameter
TablesAutoparam ==
  /\ pc = "populate"
  /\ Visited(Userptypes) = Len(function.userparams)
  /\ Visited(Autoptypes) < Len(function.autoparams)
  /\ \E ref \in {function.autoparams[Visited(Autoptypes) + 1]} :
       \E T \in {IF ref.kind = "funcref"
                   THEN VisitFuncref([S |-> Tab, A |-> autos], ref)
                   ELSE VisitSymbolref([S |-> Tab, A |-> autos], ref)} :
         SetTab(T.S) /\ autos' = T.A
  /\ UNCHANGED <<pc, emvars, function, labels, frame, ops, oplines, nfuncs, nops, testvars>>

\* One turn of the loop of visit_returntypes
TablesReturntype ==
  /\ pc = "populate"
  /\ Visited(Userptypes) = Len(function.userparams)
  /\ Visited(Autoptypes) = Len(function.autoparams)
  /\ Visited(Returntypes) < Len(function.returntypes)
  /\ SetTab(StringAppend(Tab, Returntypes,
                         <<function.returntypes[Visited(Returntypes) + 1]>>))
  /\ UNCHANGED <<pc, emvars, funvars>>

\* function.returntypes.accept returns
TablesPopulated ==
  /\ pc = "populate"
  /\ Visited(Userptypes) = Len(function.userparams)
  /\ Visited(Autoptypes) = Len(function.autoparams)
  /\ Visited(Returntypes) = Len(function.returntypes)
  /\ pc' = After("populate")
  /\ UNCHANGED <<emvars, tabvars, funvars>>

\* strings.layout_table(self.new_label)
TablesLayout ==
  /\ pc = "layout"
  /\ \E R \in {LayoutTable(Em, Tab)} : SetEm(R.E) /\ SetTab(R.S)
  /\ pc' = After("layout")
  /\ UNCHANGED funvars

\* "Emit the Infinity note header" and "Emit the Infinity function header"
TablesHeader ==
  /\ pc = "header"
  /\ \E E \in {HeaderEmit([E |-> Em, S |-> Tab], frame, function)} : SetEm(E)
  /\ pc' = After("header")
  /\ UNCHANGED <<tabvars, funvars>>

\* The rest of __visit_function and of visit_function
TablesEnd ==
  /\ pc = "end"
  /\ \E E \in {FunctionEnd(Em, Tab, autos, frame)} : SetEm(E)
  /\ pc' = After("end")
  /\ UNCHANGED <<tabvars, funvars>>

TablesNext ==
  \/ TablesBegin
  \/ TablesParameter
  \/ TablesAutoparam
  \/ TablesReturntype
  \/ TablesPopulated
  \/ TablesLayout
  \/ TablesHeader
  \/ TablesEnd

SpecTables == Init /\ [][TablesNext]_vars

\* The texts of the Strings strs, in the order of their registration
TextsOf(strs) == [h \in 1..Len(strs) |-> strs[h].text]

\* The comments of the lines whose operand is the offset of a String
OffsetComments ==
  {"provider offset", "name offset", "param types offset",
   "return types offset", "autos types offset"} \cup
  {"auto " \o ToString(i) \o " " \o field :
     i \in 0..MaxParams,
     field \in {"provider offset", "name offset", "ptypes offset", "rtypes offset"}}

\* The operands layout_table has stored as offsets
StoredOffsets == {strings[h].offset : h \in 1..Len(strings)} \ {NoV}

\* C23: a step that registers a String or changes a text is taken before
\* layout_table, when no String has an offset; a step that writes the
\* offset of a String is taken after layout_table and writes an offset
\* that layout_table stored; a String that has its offset is not changed.
C23_PopulateBeforeLayout ==
  [][/\ TextsOf(strings') # TextsOf(strings) =>
          ~IsLaidOut(Tab) /\ StoredOffsets = {}
     /\ \A h \in 1..Len(strings) :
          strings[h].offset # NoV => strings'[h] = strings[h]
     /\ \A j \in (Len(output) + 1)..Len(output') :
          output'[j].cmt \in OffsetComments =>
            /\ IsLaidOut(Tab)
            /\ output'[j].val \in StoredOffsets
     /\ (IsLaidOut(Tab') /\ ~IsLaidOut(Tab)) =>
          /\ TextsOf(strings') = TextsOf(strings)
          /\ \A h \in 1..Len(strings') : strings'[h].offset # NoV]_vars

\* A function with a user parameter, a function and a symbol among its
\* automatic parameters and a return type is written: 11 Strings, all with
\* their offsets, and the 5 offsets of the header and the 6 of the autos
\* are in the output.
C23_Witness ==
  /\ pc = "done"
  /\ Len(function.userparams) >= 1
  /\ Len(function.returntypes) >= 1
  /\ Len(autos) = 2
  /\ Len(strings) = 11
  /\ \A h \in 1..Len(strings) : strings[h].offset # NoV
  /\ Cardinality({j \in 1..Len(output) : output[j].cmt \in OffsetComments}) = 11

\* ------------------------------------------------------------------------
\* The writer on its own: new_label, emit_label and emit are called in any
\* order; pc is the call made last.
\* ------------------------------------------------------------------------

\* The lines given to emit: a directive, a blank line, a comment, a
\* #define.
WriterLines ==
  {Line("", ".byte", IntV(PyInt(1)), ""),
   Line("", "", NoV, ""),
   Line("", "", NoV, "comment"),
   Line("", "#define", DefV("DW_OP_drop", 19), "")}

WriterInit ==
  /\ pc = "writer"
  /\ EmInit(NewEmitter)
  /\ TabInit(NewStringTable)
  /\ FunInit

\* emitter.new_label()
WriterNewLabel ==
  /\ Len(objs) < MaxWriterLabels
  /\ \E E \in {NewLabel(Em)} : SetEm(E)
  /\ pc' = "new_label"
  /\ UNCHANGED <<tabvars, funvars>>

\* emitter.emit_label(l) for a label made before
WriterEmitLabel ==
  /\ Len(output) < MaxWriterLines
  /\ \E l \in 1..Len(objs) : \E E \in {EmitLabel(Em, l)} : SetEm(E)
  /\ pc' = "emit_label"
  /\ UNCHANGED <<tabvars, funvars>>

\* emitter.emit(line, comment)
WriterEmit ==
  /\ Len(output) < MaxWriterLines
  /\ \E line \in WriterLines :
       \E E \in {Emit(Em, line.dir, line.val, line.cmt)} : SetEm(E)
  /\ pc' = "emit"
  /\ UNCHANGED <<tabvars, funvars>>

WriterNext == WriterNewLabel \/ WriterEmitLabel \/ WriterEmit

SpecWriter == WriterInit /\ [][WriterNext]_vars

HasLabel(line) == line.lab # ""

\* The names of the labels defined by the lines of out, in order
DefinedNames(out) ==
  [j \in 1..Len(SelectSeq(out, HasLabel)) |-> SelectSeq(out, HasLabel)[j].lab]

\* The name of the pending label, if there is one
PendingName(lab, os) == IF lab = NoLabel THEN <<>> ELSE <<os[lab].name>>

\* C24: the labels defined in the output, followed by the pending label if
\* there is one, are the labels given to emit_label, each once and in the
\* order of the calls.  emit_label writes the label that was pending on a
\* line of its own; emit gives the pending label to a line that is not a
\* #define, which leaves no label pending, and a #define leaves the
\* pending label as it was.
C24_PendingLabel ==
  [][/\ SubSeq(output', 1, Len(output)) = output
     /\ DefinedNames(output') \o PendingName(label', objs') =
          DefinedNames(output) \o PendingName(label, objs)
            \o (IF pc' = "emit_label" THEN <<objs'[label'].name>> ELSE <<>>)
     /\ pc' = "emit_label" =>
          /\ label' # NoLabel
          /\ IF label = NoLabel
               THEN output' = output
               ELSE output' = Append(output, Line(objs[label].name, "", NoV, ""))
     /\ pc' = "emit" =>
          /\ Len(output') = Len(output) + 1
          /\ IF output'[Len(output')].dir = "#define"
               THEN /\ output'[Len(output')].lab = ""
                    /\ label' = label
               ELSE /\ <<output'[Len(output')].lab>> =
                         (IF label = NoLabel THEN <<"">> ELSE <<objs[label].name>>)
                    /\ label' = NoLabel
     /\ pc' = "new_label" => output' = output /\ label' = label]_vars

\* Label 1 was flushed on a line of its own by emit_label(2), a #define
\* was written while label 2 was pending, and the next line carries
\* label 2.
C24_Witness ==
  /\ Len(output) = 3
  /\ output[1] = Line("1", "", NoV, "")
  /\ output[2].dir = "#define"
  /\ output[2].lab = ""
  /\ output[3].dir = ".byte"
  /\ output[3].lab = "2"
  /\ label = NoLabel

\* ------------------------------------------------------------------------
\* Properties of the tables of several functions
\* ------------------------------------------------------------------------

\* The texts add_entry registers for the automatic parameters params
RECURSIVE AutoTexts(_, _)
AutoTexts(params, i) ==
  IF i > Len(params) THEN <<>>
  ELSE (IF params[i].kind = "funcref"
          THEN <<params[i].name.provider, params[i].name.name,
                 params[i].paramtypes, params[i].returntypes>>
          ELSE <<params[i].name.provider, params[i].name.name>>)
       \o AutoTexts(params, i + 1)

\* The texts a function registers in its populate phase
OwnTexts(f) ==
  <<f.provider, f.shortname, f.userparams,
    [i \in 1..Len(f.autoparams) |->
       IF f.autoparams[i].kind = "funcref" THEN 102 ELSE 115],
    f.returntypes>> \o AutoTexts(f.autoparams, 1)

\* An emitter that has only the label counter and the opcodes to define
\* of the emitter at hand
CarriedOver == [NewEmitter EXCEPT !.num_labels = num_labels, !.opcodes = opcodes]

\* The texts of the .string lines among lines
StringLines(lines) ==
  [j \in 1..Len(SelectSeq(lines, LAMBDA l : l.dir = ".string")) |->
     SelectSeq(lines, LAMBDA l : l.dir = ".string")[j].val.t]

\* C25: the Strings, the entries and the autos of a function are those of
\* its own populate phase, whatever functions were written before, and its
\* pool and autos block hold these alone; the lines written for it, its
\* Strings and their offsets are those an emitter would write that starts
\* with the same label counter and opcodes to define and nothing else.
C25_TableIsolation ==
  [][/\ StepsIntoFunction =>
          /\ TextsOf(strings') = OwnTexts(function')
          /\ Len(autos') = Len(function'.autoparams)
          /\ \A k \in 1..Len(entries') :
               \E h \in 1..Len(strings') : strings'[h].text = entries'[k].text
          /\ \E F \in {FunctionBegin(CarriedOver, function')} :
               /\ NewLines = F.E.output
               /\ strings' = F.S.strings
               /\ autos' = F.A
               /\ num_labels' = F.E.num_labels
               /\ opcodes' = F.E.opcodes
               /\ label' # NoLabel
               /\ objs'[label'].name = F.E.objs[F.E.label].name
     /\ (pc = "ops" /\ pc' = "toplevel") =>
          /\ StringLines(NewLines) = [k \in 1..Len(entries) |-> entries[k].text]
          /\ Cardinality({j \in 1..Len(NewLines) : NewLines[j].cmt \in OffsetComments})
               = Len(AutoTexts(function.autoparams, 1))
          /\ label' = NoLabel]_vars

\* example::empty() is written after example::ple(i)ip, whose stream held
\* a drop: its pool is "example", "empty", it has no autos, and the label
\* counter and the opcodes to define are not those of a new emitter.
C25_Witness ==
  /\ pc = "toplevel"
  /\ nfuncs = 2
  /\ SelectSeq(output, IsIdent) =
       <<Line("", "", NoV, "example::ple(i)ip"), Line("", "", NoV, "example::empty()")>>
  /\ TextsOf(strings) = <<TextExample, TextEmpty, <<>>, <<>>, <<>>>>
  /\ [k \in 1..Len(entries) |-> entries[k].text] = <<TextExample, TextEmpty>>
  /\ autos = <<>>
  /\ "DW_OP_drop" \notin opcodes
  /\ num_labels >= 16

\* ------------------------------------------------------------------------
\* Properties of layout_table as a function of the texts
\* ------------------------------------------------------------------------

\* The elements of a set in some order
RECURSIVE SetToSeq(_)
SetToSeq(S) ==
  IF S = {} THEN <<>>
  ELSE LET x == CHOOSE y \in S : TRUE IN <<x>> \o SetToSeq(S \ {x})

\* The table of a new emitter in which each of texts was registered once,
\* laid out
LaidOutOnce(texts) ==
  LayoutTable(NewEmitter,
              [strings |-> [i \in 1..Cardinality(texts) |-> String(SetToSeq(texts)[i])],
               entries |-> <<>>]).S

\* C26: the entries and the offset of every text after layout_table are
\* those of the table in which each of the texts was registered once: they
\* depend on the set of the texts alone, not on the order of the calls of
\* new and append nor on how often a text was registered; two Strings with
\* the same text have the same offset.
C26_LayoutByTextSet ==
  pc = "laid" =>
    /\ \A once \in {LaidOutOnce(Registered)} :
         /\ entries = once.entries
         /\ \A h \in Handles :
              \E c \in 1..Len(once.strings) :
                /\ once.strings[c].text = strings[h].text
                /\ once.strings[c].offset = strings[h].offset
    /\ \A g, h \in Handles :
         strings[g].text = strings[h].text => strings[g].offset = strings[h].offset

\* "b", "ab" and "b" again were registered, the shorter text first and
\* twice: the table has the one entry "ab", and both "b" share its tail.
C26_Witness ==
  /\ pc = "laid"
  /\ TextsOf(strings) = <<<<98>>, <<97, 98>>, <<98>>>>
  /\ Len(entries) = 1
  /\ entries[1].text = <<97, 98>>
  /\ strings[1].offset = strings[3].offset
  /\ strings[1].offset # strings[2].offset

\* ------------------------------------------------------------------------
\* The test harness: TestCompiler.preprocess.  A text is a sequence of
\* character codes; Python's indexes start at 0.
\* ------------------------------------------------------------------------

\* str.find(sub, start): the lowest index from start on at which sub
\* occurs in text, -1 if there is none
Find(text, sub, start) ==
  LET hits == {i \in start..(Len(text) - Len(sub)) :
                 SubSeq(text, i + 1, i + Len(sub)) = sub}
  IN IF hits = {} THEN -1 ELSE CHOOSE i \in hits : \A j \in hits : i <= j

\* text[i:]
SliceFrom(text, i) == SubSeq(text, i + 1, Len(text))

\* text[:i]
SliceTo(text, i) == SubSeq(text, 1, i)

Slashes == <<47, 47>>
Newline == <<10>>

\* The loop of preprocess and the append after it: what is joined after
\* the two header lines when the loop starts with text
RECURSIVE PreprocessLoop(_)
PreprocessLoop(text) ==
  IF Find(text, Slashes, 0) < 0 THEN text
  ELSE IF Find(text, Newline, Find(text, Slashes, 0)) < Find(text, Slashes, 0)
    THEN SliceTo(text, Find(text, Slashes, 0)) \o text
  ELSE SliceTo(text, Find(text, Slashes, 0))
         \o PreprocessLoop(SliceFrom(text, Find(text, Newline, Find(text, Slashes, 0))))

\* '# 1 "f"\n' and 'wordsize 32\n', for build.i8c_input_file "f" and
\* build.wordsize 32
HeaderLines ==
  <<35, 32, 49, 32, 34, 102, 34, 10>>
    \o <<119, 111, 114, 100, 115, 105, 122, 101, 32, 51, 50, 10>>

\* TestCompiler.preprocess
Preprocess(text) == HeaderLines \o PreprocessLoop(text)

\* The texts of "/", "a" and newline
InputChars == {47, 97, 10}

Inputs == UNION {[1..n -> InputChars] : n \in 0..MaxInput}

\* The harness is about to preprocess a text; no emitter is in use.
PreprocessInit ==
  /\ pc = "preprocess"
  /\ EmInit(NewEmitter)
  /\ TabInit(NewStringTable)
  /\ NoFunctionVisited
  /\ children = <<>>
  /\ forked = NotForked
  /\ filenames = {}
  /\ lock = NoChild
  /\ input \in Inputs
  /\ preprocessed = <<>>
  /\ assemblers = {}
  /\ compilecounts = {}

\* tc.preprocess(build, input)
CallPreprocess ==
  /\ pc = "preprocess"
  /\ preprocessed' = Preprocess(input)
  /\ pc' = "preprocessed"
  /\ UNCHANGED <<emvars, tabvars, autos, function, labels, frame, ops, oplines,
                 nfuncs, nops, children, forked, filenames, lock, input,
    assemblers, compilecounts>>

PreprocessNext == CallPreprocess

SpecPreprocess == PreprocessInit /\ [][PreprocessNext]_vars

\* The text without its comments: from "//" up to the newline that ends
\* the comment, or up to the end of the text
RECURSIVE Strip(_)
Strip(text) ==
  IF text = <<>> THEN <<>>
  ELSE IF Len(text) >= 2 /\ SubSeq(text, 1, 2) = Slashes
    THEN IF Find(text, Newline, 0) < 0 THEN <<>>
         ELSE Strip(SliceFrom(text, Find(text, Newline, 0)))
  ELSE <<Head(text)>> \o Strip(Tail(text))

\* C29: preprocess returns the two header lines and then the text without
\* its comments, also when the last comment is not ended by a newline.
C29_StripsComments ==
  pc = "preprocessed" => preprocessed = HeaderLines \o Strip(input)

\* The same for the texts in which every comment is ended by a newline
Terminated(text) ==
  \A i \in 0..(Len(text) - 2) :
    SubSeq(text, i + 1, i + 2) = Slashes => Find(text, Newline, i) >= 0

C29_StripsTerminated ==
  (pc = "preprocessed" /\ Terminated(input)) => preprocessed = HeaderLines \o Strip(input)

\* ------------------------------------------------------------------------
\* The test harness: CompilerTask.__fork.  A child is a copy of the task
\* with its thread: state is "new" (thread made), "started" or "done";
\* joined is whether the parent's thread.join() has returned.  None is
\* NoneV, any other value v is Some(v).
\* ------------------------------------------------------------------------

NoneV == [none |-> TRUE, value |-> <<>>]
Some(v) == [none |-> FALSE, value |-> v]

\* copy.copy(self) of a task that has neither result nor exception, and
\* the Thread for it
Copy == [state |-> "new", joined |-> FALSE, result |-> NoneV, exception |-> NoneV]

\* thread.join() returns at once, finished or not
JoinedAlways(child) == TRUE

\* thread.join() returns when the thread has finished
Joined(child) == child.state = "done"

\* The exception func raises for variant k, and the TypeError of
\* extend(None); results are lists of variants, 1 and up.
Error(k) == <<-k>>
TypeError == <<0>>

\* What func does for variant k: it returns a list or raises an Exception
Outcomes(k) ==
  {[raised |-> FALSE, value |-> <<k>>], [raised |-> FALSE, value |-> <<k, k>>],
   [raised |-> TRUE, value |-> Error(k)]}

\* __fork_child: the child after func has done outcome
ForkChild(child, outcome) ==
  IF ~child.result.none \/ ~child.exception.none
    THEN [child EXCEPT !.state = "assertion failed"]
    ELSE IF outcome.raised
      THEN [child EXCEPT !.state = "done", !.exception = Some(outcome.value)]
      ELSE [child EXCEPT !.state = "done", !.result = Some(outcome.value)]

\* The last loop of __fork, from child k on with the results so far;
\* extend(None) raises TypeError
RECURSIVE CollectFrom(_, _, _)
CollectFrom(ch, k, results) ==
  IF k > Len(ch) THEN [kind |-> "returned", value |-> results]
  ELSE IF ~ch[k].exception.none
    THEN [kind |-> "raised", value |-> ch[k].exception.value]
  ELSE IF ch[k].result.none
    THEN [kind |-> "raised", value |-> TypeError]
  ELSE CollectFrom(ch, k + 1, results \o ch[k].result.value)

\* The children in state
InState(state) == {k \in 1..Len(children) : children[k].state = state}

Lowest(S) == CHOOSE k \in S : \A j \in S : k <= j

ForkInit ==
  /\ pc = "fork"
  /\ EmInit(NewEmitter)
  /\ TabInit(NewStringTable)
  /\ FunInit

\* The first loop of __fork: a copy and a thread for each variant;
\* CompilerTask.__parallelize is either value.
ForkCopies ==
  /\ pc = "fork"
  /\ \E n \in 0..MaxVariants : children' = [k \in 1..n |-> Copy]
  /\ \E parallelize \in BOOLEAN : pc' = IF parallelize THEN "start" ELSE "run"
  /\ UNCHANGED <<emvars, tabvars, autos, function, labels, frame, ops, oplines,
                 nfuncs, nops, forked, filenames, lock, input, preprocessed,
    assemblers, compilecounts>>

\* thread.start() for the next thread, or the end of that loop
ThreadStart ==
  /\ pc = "start"
  /\ IF InState("new") # {}
       THEN /\ children' = [children EXCEPT ![Lowest(InState("new"))].state = "started"]
            /\ UNCHANGED pc
       ELSE /\ pc' = "join"
            /\ UNCHANGED children
  /\ UNCHANGED <<emvars, tabvars, autos, function, labels, frame, ops, oplines,
                 nfuncs, nops, forked, filenames, lock, input, preprocessed,
    assemblers, compilecounts>>

\* A started thread runs __fork_child.
ThreadBody ==
  /\ \E k \in InState("started") : \E outcome \in Outcomes(k) :
       children' = [children EXCEPT ![k] = ForkChild(@, outcome)]
  /\ UNCHANGED <<pc, emvars, tabvars, autos, function, labels, frame, ops, oplines,
                 nfuncs, nops, forked, filenames, lock, input, preprocessed,
    assemblers, compilecounts>>

\* thread.join() for the next thread, or the end of that loop
ThreadJoin ==
  /\ pc = "join"
  /\ IF \E k \in 1..Len(children) : ~children[k].joined
       THEN /\ \E k \in {Lowest({j \in 1..Len(children) : ~children[j].joined})} :
                 /\ Joined(children[k])
                 /\ children' = [children EXCEPT ![k].joined = TRUE]
            /\ UNCHANGED pc
       ELSE /\ pc' = "collect"
            /\ UNCHANGED children
  /\ UNCHANGED <<emvars, tabvars, autos, function, labels, frame, ops, oplines,
                 nfuncs, nops, forked, filenames, lock, input, preprocessed,
    assemblers, compilecounts>>

\* thread.run() for the next thread, or the end of that loop
ThreadRun ==
  /\ pc = "run"
  /\ IF InState("new") # {}
       THEN /\ \E k \in {Lowest(InState("new"))} : \E outcome \in Outcomes(k) :
                 children' = [children EXCEPT ![k] = ForkChild(@, outcome)]
            /\ UNCHANGED pc
       ELSE /\ pc' = "collect"
            /\ UNCHANGED children
  /\ UNCHANGED <<emvars, tabvars, autos, function, labels, frame, ops, oplines,
                 nfuncs, nops, forked, filenames, lock, input, preprocessed,
    assemblers, compilecounts>>

\* The last loop of __fork
ForkCollect ==
  /\ pc = "collect"
  /\ forked' = CollectFrom(children, 1, <<>>)
  /\ pc' = "forked"
  /\ UNCHANGED <<emvars, tabvars, autos, function, labels, frame, ops, oplines,
                 nfuncs, nops, children, filenames, lock, input, preprocessed,
    assemblers, compilecounts>>

ForkNext ==
  \/ ForkCopies
  \/ ThreadStart
  \/ ThreadBody
  \/ ThreadJoin
  \/ ThreadRun
  \/ ForkCollect

SpecFork == ForkInit /\ [][ForkNext]_vars

\* The children that raised
Failed == {k \in 1..Len(children) : ~children[k].exception.none}

\* The results of the children from k on, one after the other
RECURSIVE ResultsFrom(_)
ResultsFrom(k) ==
  IF k > Len(children) THEN <<>>
  ELSE children[k].result.value \o ResultsFrom(k + 1)

\* The children whose result or exception the step writes
Written ==
  {k \in 1..Len(children) :
     Len(children') = Len(children) /\
     (children'[k].result # children[k].result
        \/ children'[k].exception # children[k].exception)}

\* C27: when __fork returns or raises, every child has finished; it
\* returns the results of the children one after the other in the order of
\* the variants if none raised, and raises the exception of the first
\* child in that order that raised; a step writes the result or the
\* exception of one child only, which had neither and then has one of
\* them.
C27_ForkDeterministic ==
  [][/\ (pc # "forked" /\ pc' = "forked") =>
          /\ \A k \in 1..Len(children) : children[k].state = "done"
          /\ \A k \in 1..Len(children) :
               children[k].result.none # children[k].exception.none
          /\ forked' = IF Failed = {}
                         THEN [kind |-> "returned", value |-> ResultsFrom(1)]
                         ELSE [kind |-> "raised",
                               value |-> children[Lowest(Failed)].exception.value]
     /\ Cardinality(Written) <= 1
     /\ \A k \in Written :
          /\ children[k].result.none /\ children[k].exception.none
          /\ children'[k].result.none # children'[k].exception.none
          /\ children'[k].state = "done"]_vars

\* The threads ran in parallel; the first child returned, the second and
\* the third raised, and __fork raised the exception of the second.
C27_Witness ==
  /\ pc = "forked"
  /\ Len(children) = 3
  /\ \A k \in 1..3 : children[k].joined
  /\ Failed = {2, 3}
  /\ forked = [kind |-> "raised", value |-> Error(2)]

\* The threads ran one after the other, and __fork returned the results
\* of three children.
C27_WitnessSequential ==
  /\ pc = "forked"
  /\ Len(children) = 3
  /\ \A k \in 1..3 : ~children[k].joined
  /\ forked = [kind |-> "returned", value |-> <<1, 2, 2, 3>>]

\* ------------------------------------------------------------------------
\* The test harness: the filenames of the tasks.  A string is the sequence
\* of its characters.  CompilerTask.__filenames and
\* TestCase.__compilecounts are dicts: sets of records, one for each key.
\* A child is a copy of the task with its thread; its pc is where the
\* thread is.
\* ------------------------------------------------------------------------

Digits == <<"0", "1", "2", "3", "4", "5", "6", "7", "8", "9">>

\* "%d" % n
RECURSIVE Decimal(_)
Decimal(n) ==
  IF n < 10 THEN <<Digits[n + 1]>>
  ELSE Decimal(n \div 10) \o <<Digits[(n % 10) + 1]>>

\* "%04d" % n
RECURSIVE ZeroPadded(_, _)
ZeroPadded(text, width) ==
  IF Len(text) >= width THEN text ELSE ZeroPadded(<<"0">> \o text, width)

\* The fileprefix of _new_compilation, before its index: a path
Tests == {<<"o", "/", "t">>, <<"o", "/", "u">>}

\* os.sep in filename_or_ext
HasSep(text) == \E i \in 1..Len(text) : text[i] = "/"

\* The variants AssemblerManager can hold: __add_variant asserts that no
\* two have the same wordsize and byteorder.
Machines == [wordsize : {32, 64}, byteorder : {"<", ">"}]

\* __stage_2 appends the same text for either byteorder
ByteorderTextSame(byteorder) == <<"e", "l">>

\* {b"<": "el", b">": "be"}[self.byteorder]
ByteorderText(byteorder) ==
  IF byteorder = "<" THEN <<"e", "l">> ELSE <<"b", "e">>

ExtI8 == <<".", "i", "8">>
ExtS == <<".", "S">>
ExtO == <<".", "o">>

\* dict.get(key, default) and dict[key] = value of a dict of records
\* [name, writable]
Get(dict, name, default) ==
  IF \E r \in dict : r.name = name
    THEN (CHOOSE r \in dict : r.name = name).writable
    ELSE default

Put(dict, name, value) ==
  {r \in dict : r.name # name} \cup {[name |-> name, writable |-> value]}

\* TestCase.__compilecounts.get(fileprefix, 0)
Count(fileprefix) ==
  IF \E r \in compilecounts : r.fileprefix = fileprefix
    THEN (CHOOSE r \in compilecounts : r.fileprefix = fileprefix).index
    ELSE 0

\* The calls of _new_compilation so far
Compilations ==
  LET RECURSIVE Sum(_)
      Sum(S) == IF S = {} THEN 0
                ELSE LET r == CHOOSE x \in S : TRUE IN r.index + Sum(S \ {r})
  IN Sum(compilecounts)

\* CompilerTask(fileprefix), copied by run's __fork for a wordsize
Stage1Child(fileprefix, wordsize) ==
  [stage |-> 1, pc |-> "stage_1", parent |-> 0, fileprefix |-> fileprefix,
   wordsize |-> wordsize, byteorder |-> "", ext |-> <<>>, filename |-> <<>>,
   is_writable |-> FALSE, files |-> {}]

\* copy.copy(self) of __stage_1's __fork for an assembler
Stage2Child(k, task, machine) ==
  [task EXCEPT !.stage = 2, !.pc = "stage_2", !.parent = k,
               !.byteorder = machine.byteorder]

\* A thread that has finished: its __fork_child has stored a result or an
\* exception
Finished(task) == task.pc \in {"done", "AssertionError"}

\* The children of child k
ChildrenOf(k) == {j \in 1..Len(children) : children[j].parent = k}

SetToSeqOf(S) ==
  LET RECURSIVE Seq1(_)
      Seq1(T) == IF T = {} THEN <<>>
                 ELSE LET x == CHOOSE y \in T : TRUE IN <<x>> \o Seq1(T \ {x})
  IN Seq1(S)

filesother ==
  <<pc, emvars, tabvars, autos, function, labels, frame, ops, oplines, nfuncs,
    nops, forked, input, preprocessed>>

FilesInit ==
  /\ pc = "tests"
  /\ EmInit(NewEmitter)
  /\ TabInit(NewStringTable)
  /\ NoFunctionVisited
  /\ children = <<>>
  /\ forked = NotForked
  /\ filenames = {}
  /\ lock = NoChild
  /\ input = <<>>
  /\ preprocessed = <<>>
  /\ assemblers \in SUBSET Machines \ {{}}
  /\ compilecounts = {}

\* TestCompiler.compile: _new_compilation, CompilerTask(result.fileprefix)
\* and run, whose __fork makes a child for each wordsize.  The call before
\* it has returned.
Compile ==
  /\ \A k \in 1..Len(children) : Finished(children[k])
  /\ Compilations < MaxCompilations
  /\ \E test \in Tests :
       LET index == Count(test) + 1
           fileprefix == test \o <<"_">> \o ZeroPadded(Decimal(index), 4)
           by_wordsize == {m.wordsize : m \in assemblers}
       IN /\ compilecounts' =
               {r \in compilecounts : r.fileprefix # test}
                 \cup {[fileprefix |-> test, index |-> index]}
          /\ children' =
               SetToSeqOf({Stage1Child(fileprefix, w) : w \in by_wordsize})
  /\ UNCHANGED <<filesother, filenames, lock, assemblers>>

\* __stage_1 up to its call of writable_filename(".i8")
Stage1Start ==
  \E k \in 1..Len(children) :
  /\ children[k].pc = "stage_1"
  /\ children' =
       [children EXCEPT
          ![k].fileprefix = @ \o <<"_">> \o Decimal(children[k].wordsize),
          ![k].ext = ExtI8, ![k].is_writable = TRUE, ![k].pc = "unique"]
  /\ UNCHANGED <<filesother, filenames, lock, assemblers, compilecounts>>

\* __stage_2 up to its call of readonly_filename(".o")
Stage2Start ==
  \E k \in 1..Len(children) :
  /\ children[k].pc = "stage_2"
  /\ children' =
       [children EXCEPT
          ![k].fileprefix = @ \o ByteorderText(children[k].byteorder),
          ![k].ext = ExtO, ![k].is_writable = FALSE, ![k].pc = "unique"]
  /\ UNCHANGED <<filesother, filenames, lock, assemblers, compilecounts>>

\* with self.__filenames_lock: the thread takes the lock
LockAcquire ==
  \E k \in 1..Len(children) :
  /\ children[k].pc \in {"unique", "check", "mark"}
  /\ lock = NoChild
  /\ lock' = k
  /\ UNCHANGED <<filesother, children, filenames, assemblers, compilecounts>>

\* __unique_filename under the lock, and the return to its caller:
\* __stage_1 goes on to write_file with the filename, __stage_2 to its
\* return.
UniqueFilename ==
  \E k \in 1..Len(children) :
  /\ children[k].pc = "unique"
  /\ lock = k
  /\ lock' = NoChild
  /\ LET filename == children[k].fileprefix \o children[k].ext
     IN IF \E r \in filenames : r.name = filename
          THEN /\ children' = [children EXCEPT ![k].pc = "AssertionError"]
               /\ UNCHANGED filenames
          ELSE /\ filenames' = Put(filenames, filename, children[k].is_writable)
               /\ children' =
                    [children EXCEPT
                       ![k].filename = filename,
                       ![k].pc = IF children[k].stage = 1 THEN "check" ELSE "done"]
  /\ UNCHANGED <<filesother, assemblers, compilecounts>>

\* write_file with a path, under the lock
WriteFileCheck ==
  \E k \in 1..Len(children) :
  /\ children[k].pc = "check"
  /\ HasSep(children[k].filename)
  /\ lock = k
  /\ lock' = NoChild
  /\ children' =
       [children EXCEPT
          ![k].pc = IF Get(filenames, children[k].filename, FALSE)
                      THEN "write" ELSE "AssertionError"]
  /\ UNCHANGED <<filesother, filenames, assemblers, compilecounts>>

\* write_file: open(filename, "w") and fp.write(text)
WriteFileWrite ==
  \E k \in 1..Len(children) :
  /\ children[k].pc = "write"
  /\ children' =
       [children EXCEPT ![k].files = @ \cup {children[k].filename},
                        ![k].pc = "mark"]
  /\ UNCHANGED <<filesother, filenames, lock, assemblers, compilecounts>>

\* write_file under the lock again, and the return to __stage_1, which
\* goes on to writable_filename(".S") or to its __fork
WriteFileMark ==
  \E k \in 1..Len(children) :
  /\ children[k].pc = "mark"
  /\ lock = k
  /\ lock' = NoChild
  /\ filenames' = Put(filenames, children[k].filename, TRUE)
  /\ children' =
       [children EXCEPT
          ![k].ext = IF children[k].ext = ExtI8 THEN ExtS ELSE @,
          ![k].pc = IF children[k].ext = ExtI8 THEN "unique" ELSE "fork"]
  /\ UNCHANGED <<filesother, assemblers, compilecounts>>

\* __stage_1's __fork: a copy for each assembler of its wordsize
Stage1Fork ==
  \E k \in 1..Len(children) :
  /\ children[k].pc = "fork"
  /\ children' =
       [children EXCEPT ![k].pc = "join"]
         \o SetToSeqOf({Stage2Child(k, children[k], m) :
                          m \in {a \in assemblers :
                                   a.wordsize = children[k].wordsize}})
  /\ UNCHANGED <<filesother, filenames, lock, assemblers, compilecounts>>

\* __stage_1's __fork after its threads have finished: it raises the
\* exception of a child or returns
Stage1Join ==
  \E k \in 1..Len(children) :
  /\ children[k].pc = "join"
  /\ \A j \in ChildrenOf(k) : Finished(children[j])
  /\ children' =
       [children EXCEPT
          ![k].pc = IF \E j \in ChildrenOf(k) : children[j].pc = "AssertionError"
                      THEN "AssertionError" ELSE "done"]
  /\ UNCHANGED <<filesother, filenames, lock, assemblers, compilecounts>>

FilesNext ==
  \/ Compile
  \/ Stage1Start
  \/ Stage2Start
  \/ LockAcquire
  \/ UniqueFilename
  \/ WriteFileCheck
  \/ WriteFileWrite
  \/ WriteFileMark
  \/ Stage1Fork
  \/ Stage1Join

SpecFiles == FilesInit /\ [][FilesNext]_vars

\* C28: no assertion of __unique_filename or write_file fails; the
\* registry holds each filename once; a file that write_file has written
\* is registered as writable, and so is the file it is about to write.
C28_UniqueFilenames ==
  /\ \A k \in 1..Len(children) : children[k].pc # "AssertionError"
  /\ Cardinality({r.name : r \in filenames}) = Cardinality(filenames)
  /\ \A k \in 1..Len(children) :
       /\ \A name \in children[k].files :
            [name |-> name, writable |-> TRUE] \in filenames
       /\ children[k].pc = "write" =>
            /\ HasSep(children[k].filename)
            /\ [name |-> children[k].filename, writable |-> TRUE] \in filenames

\* In the second compilation of a test, with two assemblers of one
\* wordsize, a stage-2 child holds the lock while the other has registered
\* its filename; the filenames of the first compilation are still there.
C28_Witness ==
  /\ Compilations = 2
  /\ \E k, j \in 1..Len(children) :
       /\ k # j
       /\ children[k].stage = 2 /\ children[j].stage = 2
       /\ children[k].parent = children[j].parent
       /\ children[k].pc = "unique" /\ lock = k
       /\ children[j].pc = "done"
       /\ [name |-> children[j].filename, writable |-> FALSE] \in filenames
  /\ [name |-> <<"o", "/", "t", "_", "0", "0", "0", "1", "_", "3", "2", "e", "l",
                 ".", "o">>, writable |-> FALSE] \in filenames
  /\ [name |-> <<"o", "/", "t", "_", "0", "0", "0", "2", "_", "3", "2", ".", "S">>,
      writable |-> TRUE] \in filenames

====
